---- MODULE Spec2Model ----
(***************************************************************************)
(* Model of langfuse-cli's pagination and output layer.                    *)
(*                                                                         *)
(*   client.py  LangfuseClient._get / _paginate  (generator, pull-driven)  *)
(*   commands/traces.py  list_traces             (command handler)         *)
(*   output.py  OutputContext, _pick_fields, _deep_get                     *)
(*   main.py    main                             (builds OutputContext)    *)
(*                                                                         *)
(* Specifications:                                                         *)
(*   Spec        _paginate driven by an arbitrary consumer of the iterator *)
(*   CmdSpec     the `traces list` handler: list(_paginate), render, close *)
(*   RenderSpec  OutputContext.render_table / render_detail dispatch       *)
(*   FieldsSpec  _pick_fields / _deep_get on bounded records               *)
(***************************************************************************)
EXTENDS Integers, Sequences, FiniteSets, TLC

\* ------------------------------------------------------------------ bounds
\* Largest --limit value explored.
MaxLimit == 200
\* Fetches explored per invocation (the loop itself has no such cap).
MaxFetches == 3
\* Length of a page that is shorter than a full page.
ShortLen == 5

\* ------------------------------------------------------- program constants
\* client.py:103  page-size ceiling of one request
PageSize == 50
\* _exit_codes.py
SUCCESS == 0
ERROR == 1
NOT_FOUND == 2
HTTP_NOT_FOUND == 404

\* Python Optional values: None is the empty tuple, a present value x is <<x>>.
NONE == <<>>
Some(x) == <<x>>
\* Marker for a response without meta.totalItems.
NoHint == -1
\* Exit status of a process that has not exited.
Running == -1

Min(a, b) == IF a <= b THEN a ELSE b
Max(a, b) == IF a >= b THEN a ELSE b
\* ceil(a / b) for a >= 0, b > 0
CeilDiv(a, b) == (a + b - 1) \div b

VARIABLES
    \* ---- LangfuseClient._paginate (one invocation) ----
    limit,      \* argument `limit`
    page,       \* local `page`
    yielded,    \* local `yielded`
    items,      \* number of items in `items` (the page being iterated)
    hint,       \* meta.totalItems of that page, NoHint when missing
    idx,        \* how many items of `items` the for loop has taken
    pc,         \* position of the generator
    err,        \* the LangfuseAPIError raised by _get, NONE otherwise
    \* ---- transport log ----
    requests,   \* every request issued: [page, size]
    served,     \* what the transport answered to each request
    \* ---- consumer of the iterator ----
    out,        \* items handed to the consumer, in order: <<fetch no, index>>
    pulls,      \* number of next() calls made by the consumer
    stopped,    \* the consumer dropped the iterator
    \* ---- command handler (traces list) ----
    ctx,        \* state.output, the OutputContext
    cmd,        \* position of the handler
    rows,       \* the materialised list returned by client.list_traces
    stdout,     \* writes to the primary output stream
    stderr,     \* writes to the diagnostic stream
    exitCode,   \* process exit status, Running until the exit
    closed,     \* number of client.close() calls
    renders,    \* number of render_table calls
    \* ---- pure-function harness (_pick_fields / render dispatch) ----
    input,      \* the argument tuple under test; for a render call, what
                \* the environment answered (whether jq ran)
    result      \* what the function returned

pagerVars == <<limit, page, yielded, items, hint, idx, pc, err>>
logVars == <<requests, served>>
consumerVars == <<out, pulls, stopped>>
cmdVars == <<ctx, cmd, rows, stdout, stderr, exitCode, closed, renders>>
fnVars == <<input, result>>
vars == <<pagerVars, logVars, consumerVars, cmdVars, fnVars>>

\* ------------------------------------------------------------- transport
\* Limits a caller may pass (typer accepts any integer for --limit).
Limits ==
    {-1, 0, 1, 3, ShortLen + 1, PageSize, PageSize + ShortLen,
     2 * PageSize + ShortLen, MaxLimit}

\* Page lengths the transport may answer a request of `size` items with:
\* empty, short, exactly as requested, a full page (more than requested when
\* size < 50).
PageLens(size) == {0, ShortLen, size, PageSize}

\* totalItems hints a page may carry.
Hints == {NoHint, ShortLen, PageSize, 2 * PageSize + ShortLen, 5 * MaxLimit}

\* Ways an HTTP GET can fail with a LangfuseAPIError (httpx.HTTPStatusError
\* 404 / other status, httpx.RequestError). A success response whose body
\* is no JSON makes resp.json() raise json.JSONDecodeError, which _get does
\* not catch: served as "badjson", it leaves the generator at pc "crashed".
Failures == {"http404", "http500", "connect"}

\* LangfuseAPIError raised by _get for a failed GET.
APIError(kind) ==
    IF kind = "http404"
    THEN [status_code |-> HTTP_NOT_FOUND, exit_code |-> NOT_FOUND]
    ELSE IF kind = "http500"
    THEN [status_code |-> 500, exit_code |-> ERROR]
    ELSE [status_code |-> 0, exit_code |-> ERROR]

\* Variant: reads a key the response does not carry.
TotalWrongKey(h) == 0

\* meta.get("totalItems", 0)
Total(h) == IF h = NoHint THEN 0 ELSE h

\* Variant: always asks for a full page.
RequestSizeFixed(lim, y) == PageSize

\* min(limit - yielded, 50)
RequestSize(lim, y) == Min(lim - y, PageSize)

\* Variant: the loop is entered once more when the limit is reached.
LoopContinuesInclusive(y, lim) == y <= lim

\* `while yielded < limit`
LoopContinues(y, lim) == y < lim

\* Variant: the empty-page test is missing.
IsEmptyPageIgnored(n) == FALSE

\* `if not items: break`
IsEmptyPage(n) == n = 0

\* Variant: the limit test inside the for loop is missing.
LimitReachedIgnored(y, lim) == FALSE

\* `if yielded >= limit: break` inside the for loop
LimitReached(y, lim) == y >= lim

\* Variant: strict comparison with the hint.
NoMoreItemsStrict(y, h) == y > Total(h)

\* `if yielded >= total: break`
NoMoreItems(y, h) == y >= Total(h)

\* Variant: the page number is not advanced.
NextPageSame(p) == p

\* `page += 1`
NextPage(p) == p + 1

\* ------------------------------------------------------------ _paginate
\* The consumer calls next(): the generator starts, or resumes after the
\* yield and executes `yielded += 1`.
Pull ==
    /\ ~stopped
    /\ pc \in {"start", "suspended"}
    /\ pulls' = pulls + 1
    /\ IF pc = "start"
       THEN /\ pc' = "while"
            /\ yielded' = yielded
       ELSE /\ pc' = "for"
            /\ yielded' = yielded + 1
    /\ UNCHANGED <<limit, page, items, hint, idx, err>>
    /\ UNCHANGED <<logVars, out, stopped, cmdVars, fnVars>>

\* `while yielded < limit:` then one _get and the empty-page test.
Loop ==
    /\ pc = "while"
    /\ IF ~LoopContinues(yielded, limit)
       THEN /\ pc' = "done"
            /\ UNCHANGED <<items, hint, idx, err, logVars>>
       ELSE /\ Len(requests) < MaxFetches
            /\ LET size == RequestSize(limit, yielded) IN
               /\ requests' = Append(requests, [page |-> page, size |-> size])
               /\ \/ \E f \in Failures :
                        /\ served' = Append(served, [fail |-> f, n |-> 0, hint |-> NoHint])
                        /\ err' = Some(APIError(f))
                        /\ pc' = "raised"
                        /\ UNCHANGED <<items, hint, idx>>
                  \/ /\ served' = Append(served, [fail |-> "badjson", n |-> 0, hint |-> NoHint])
                     /\ pc' = "crashed"
                     /\ UNCHANGED <<items, hint, idx, err>>
                  \/ \E n \in PageLens(size), h \in Hints :
                        /\ served' = Append(served, [fail |-> "none", n |-> n, hint |-> h])
                        /\ err' = err
                        /\ IF IsEmptyPage(n)
                           THEN /\ pc' = "done"
                                /\ UNCHANGED <<items, hint, idx>>
                           ELSE /\ pc' = "for"
                                /\ items' = n
                                /\ hint' = h
                                /\ idx' = 0
    /\ UNCHANGED <<limit, page, yielded, consumerVars, cmdVars, fnVars>>

\* Variant: the page is consumed eagerly instead of suspending at the yield.
ForStepEager ==
    /\ pc = "for"
    /\ IF idx < items /\ ~LimitReached(yielded, limit)
       THEN /\ out' = Append(out, <<Len(requests), idx + 1>>)
            /\ idx' = idx + 1
            /\ yielded' = yielded + 1
            /\ pc' = "for"
       ELSE /\ pc' = "after"
            /\ UNCHANGED <<out, idx, yielded>>
    /\ UNCHANGED <<limit, page, items, hint, err>>
    /\ UNCHANGED <<logVars, pulls, stopped, cmdVars, fnVars>>

\* `for item in items:` with the limit test and the yield.
ForStep ==
    /\ pc = "for"
    /\ IF idx < items /\ ~LimitReached(yielded, limit)
       THEN /\ out' = Append(out, <<Len(requests), idx + 1>>)
            /\ idx' = idx + 1
            /\ pc' = "suspended"
       ELSE /\ pc' = "after"
            /\ UNCHANGED <<out, idx>>
    /\ UNCHANGED <<limit, page, yielded, items, hint, err>>
    /\ UNCHANGED <<logVars, pulls, stopped, cmdVars, fnVars>>

\* Variant: a page without a totalItems hint does not end the iteration.
AfterPageNeedsHint ==
    /\ pc = "after"
    /\ IF hint # NoHint /\ NoMoreItems(yielded, hint)
       THEN /\ pc' = "done"
            /\ page' = page
       ELSE /\ pc' = "while"
            /\ page' = NextPage(page)
    /\ UNCHANGED <<limit, yielded, items, hint, idx, err>>
    /\ UNCHANGED <<logVars, consumerVars, cmdVars, fnVars>>

\* The totalItems test after a page, then `page += 1`.
AfterPage ==
    /\ pc = "after"
    /\ IF NoMoreItems(yielded, hint)
       THEN /\ pc' = "done"
            /\ page' = page
       ELSE /\ pc' = "while"
            /\ page' = NextPage(page)
    /\ UNCHANGED <<limit, yielded, items, hint, idx, err>>
    /\ UNCHANGED <<logVars, consumerVars, cmdVars, fnVars>>

\* The consumer stops pulling and drops the iterator.
Stop ==
    /\ ~stopped
    /\ cmd = "iter"
    /\ pc \in {"start", "suspended"}
    /\ stopped' = TRUE
    /\ UNCHANGED <<pagerVars, logVars, out, pulls, cmdVars, fnVars>>

\* ------------------------------------------------------------ Spec
NoCtx == [force_json |-> FALSE, json_fields |-> NONE, jq_expr |-> NONE,
          quiet |-> FALSE, is_tty |-> FALSE]

PagerInit ==
    /\ page = 1
    /\ yielded = 0
    /\ items = 0
    /\ hint = NoHint
    /\ idx = 0
    /\ pc = "start"
    /\ err = NONE
    /\ requests = <<>>
    /\ served = <<>>
    /\ out = <<>>
    /\ pulls = 0
    /\ stopped = FALSE

HandlerIdle ==
    /\ rows = <<>>
    /\ stdout = <<>>
    /\ stderr = <<>>
    /\ exitCode = Running
    /\ closed = 0
    /\ renders = 0

FnIdle ==
    /\ input = NONE
    /\ result = NONE

Init ==
    /\ limit \in Limits
    /\ PagerInit
    /\ ctx = NoCtx
    /\ cmd = "iter"
    /\ HandlerIdle
    /\ FnIdle

Next ==
    \/ Pull
    \/ Loop
    \/ ForStep
    \/ AfterPage
    \/ Stop

Spec == Init /\ [][Next]_vars

\* ============================================================ history
\* Number of _get calls made so far.
Fetches == Len(requests)

\* Items the consumer received from fetch k / from fetches before k.
YieldedFrom(k) == Cardinality({i \in 1..Len(out) : out[i][1] = k})
YieldedBefore(k) == Cardinality({i \in 1..Len(out) : out[i][1] < k})
YieldedThrough(k) == Cardinality({i \in 1..Len(out) : out[i][1] <= k})

\* Items held by the first k pages the transport served.
RECURSIVE ServedUpTo(_)
ServedUpTo(k) == IF k = 0 THEN 0 ELSE ServedUpTo(k - 1) + served[k].n

\* The contents of the first k served pages, concatenated in fetch order.
RECURSIVE ConcatPages(_)
ConcatPages(k) ==
    IF k = 0 THEN <<>>
    ELSE ConcatPages(k - 1) \o [j \in 1..served[k].n |-> <<k, j>>]

\* Every answer so far was a non-empty page.
AllNonEmpty == \A k \in 1..Fetches : served[k].fail = "none" /\ served[k].n > 0

\* Every page reports totalItems = T and holds as many items as were
\* requested, or all remaining ones when fewer than requested remain of T.
ExactPages(T) ==
    \A k \in 1..Fetches :
        /\ served[k].hint = T
        /\ served[k].n = Min(requests[k].size, T - ServedUpTo(k - 1))

\* Every page reports totalItems = T and the pages served hold no more than T.
SameHint(T) ==
    /\ \A k \in 1..Fetches : served[k].hint = T
    /\ ServedUpTo(Fetches) <= T

\* The generator has returned (the consumer got StopIteration).
Exhausted == pc = "done"

\* ============================================================ claims
\* C1 (as stated): for every limit L >= 1 and every sequence of non-empty
\* pages (all reporting the total T), a fully consumed _paginate yields
\* exactly min(L, T) records and makes ceil(yielded / 50) fetches.
C1_AnyPages ==
    \A T \in Hints \ {NoHint} :
        (Exhausted /\ limit >= 1 /\ AllNonEmpty /\ SameHint(T))
            => /\ Len(out) = Min(limit, T)
               /\ Fetches = CeilDiv(Len(out), PageSize)

\* C1 (amended): the same for pages that each hold exactly the requested
\* number of items (or all that remain of T): min(L, T) records, the page
\* contents concatenated in fetch order, in ceil(yielded / 50) fetches.
C1_ExactPages ==
    \A T \in Hints \ {NoHint} :
        (Exhausted /\ limit >= 1 /\ AllNonEmpty /\ ExactPages(T))
            => /\ Len(out) = Min(limit, T)
               /\ out = SubSeq(ConcatPages(Fetches), 1, Len(out))
               /\ Fetches = CeilDiv(Len(out), PageSize)

C1_Witness ==
    /\ Exhausted
    /\ limit = MaxLimit
    /\ AllNonEmpty
    /\ ExactPages(2 * PageSize + ShortLen)
    /\ Fetches = 3
    /\ Len(out) = 2 * PageSize + ShortLen

\* C2: a page after which yielded >= its totalItems hint is the last page
\* fetched, whatever the limit; page 1 with T <= 50 items and totalItems = T
\* is never followed by a second fetch; pages of 50/50/5 with totalItems =
\* 105 and limit = 200 end after 3 fetches with 105 records.
C2_StopOnHint ==
    /\ \A k \in 1..(Fetches - 1) : YieldedThrough(k) < Total(served[k].hint)
    /\ (/\ Fetches >= 1
        /\ pc \in {"while", "done"}
        /\ served[Fetches].fail = "none"
        /\ served[Fetches].n > 0
        /\ yielded >= Total(served[Fetches].hint)) => pc = "done"
    /\ (/\ Fetches >= 1
        /\ served[1].fail = "none"
        /\ served[1].n = served[1].hint
        /\ served[1].hint \in 1..PageSize) => Fetches = 1
    /\ (/\ limit = MaxLimit
        /\ Fetches >= 3
        /\ \A k \in 1..3 : served[k].hint = 2 * PageSize + ShortLen
        /\ served[1].n = PageSize /\ served[2].n = PageSize
        /\ served[3].n = ShortLen)
            => /\ Fetches = 3
               /\ pc \in {"while", "done"}
                    => pc = "done" /\ Len(out) = 2 * PageSize + ShortLen

C2_Witness ==
    /\ Exhausted
    /\ limit = MaxLimit
    /\ Fetches = 3
    /\ served[3] = [fail |-> "none", n |-> ShortLen, hint |-> 2 * PageSize + ShortLen]
    /\ served[1].n = PageSize /\ served[2].n = PageSize
    /\ Len(out) = 2 * PageSize + ShortLen

\* C3: an empty page ends the pagination at once: it is the last page
\* fetched, the generator has returned, and every record handed out comes
\* from an earlier page, whatever limit and totalItems hints say.
C3_StopOnEmpty ==
    \A k \in 1..Fetches :
        (served[k].fail = "none" /\ served[k].n = 0)
            => /\ k = Fetches
               /\ pc = "done"
               /\ YieldedFrom(k) = 0
               /\ Len(out) = yielded

C3_Witness ==
    /\ Fetches = 3
    /\ served[3] = [fail |-> "none", n |-> 0, hint |-> 5 * MaxLimit]
    /\ served[2].hint = 5 * MaxLimit
    /\ limit = MaxLimit
    /\ Len(out) = 2 * PageSize
    /\ pc = "done"

\* The budget left when fetch k was issued.
Budget(k) == limit - YieldedBefore(k)

\* The last record handed out is the next item of its page, in page order.
LastInPageOrder ==
    out # <<>> =>
        LET last == out[Len(out)] IN
        /\ last[2] = Len(out) - YieldedBefore(last[1])
        /\ last[2] <= served[last[1]].n
        /\ Len(out) > 1 => out[Len(out) - 1][1] <= last[1]

\* C4: the number of records handed out never exceeds limit; a page holding
\* more items than the remaining budget contributes only its first
\* (limit - alreadyYielded) items, in page order, and is the last one fetched.
C4_NeverOverLimit ==
    /\ Len(out) <= Max(limit, 0)
    /\ LastInPageOrder
    /\ \A k \in 1..Fetches :
        (served[k].fail = "none" /\ served[k].n > Budget(k))
            => /\ k = Fetches
               /\ YieldedFrom(k) <= Budget(k)
               /\ pc \in {"after", "while", "done"} => YieldedFrom(k) = Budget(k)

C4_Witness ==
    /\ limit = 3
    /\ Fetches = 1
    /\ served[1].n = PageSize
    /\ out = <<(<<1, 1>>), (<<1, 2>>), (<<1, 3>>)>>
    /\ pc = "done"

\* C5: every request carries page size min(limit - alreadyYielded, 50),
\* which lies in 1..50 and never exceeds the remaining budget.
C5_RequestSize ==
    \A k \in 1..Fetches :
        /\ requests[k].size = Min(Budget(k), PageSize)
        /\ requests[k].size \in 1..PageSize
        /\ requests[k].size <= Budget(k)

C5_Witness ==
    /\ limit = PageSize + ShortLen
    /\ Fetches = 2
    /\ requests[1].size = PageSize
    /\ requests[2].size = ShortLen

\* C6: the page numbers requested are 1, 2, ..., k in that order.
C6_PageNumbers == \A k \in 1..Fetches : requests[k].page = k

C6_Witness ==
    /\ Fetches = 3
    /\ requests[3].page = 3
    /\ pc = "for"

\* The fetch that produced the last record handed out (0 when none was).
LastFetchUsed == IF out = <<>> THEN 0 ELSE out[Len(out)][1]

\* C7: the generator only runs inside a next() call of the consumer: while
\* it is suspended the consumer holds every record yielded and only the
\* fetches needed for them were made; whenever it runs (and so whenever it
\* fetches) the consumer has received all earlier records and asked for
\* exactly one more.  A consumer that stopped after n records caused no
\* fetch beyond the one that produced record n.
C7_PullDriven ==
    /\ pc \in {"start", "suspended"}
        => pulls = Len(out) /\ Fetches = LastFetchUsed
    /\ pc \in {"while", "for", "after"} => pulls = Len(out) + 1
    /\ stopped => pc \in {"start", "suspended"} /\ Fetches = LastFetchUsed

C7_Witness ==
    /\ stopped
    /\ limit = MaxLimit
    /\ Len(out) = 3
    /\ Fetches = 1
    /\ served[1].n = PageSize
    /\ served[1].hint = 5 * MaxLimit

\* ====================================================== records and paths
\* A string is the sequence of its tokens; "." and "," are tokens of their
\* own, so "user.name" is <<"user", ".", "name">> and "" is <<>>.
K_id == <<"id">>
K_name == <<"name">>
K_user == <<"user">>
K_user_name == <<"user", ".", "name">>
K_user_dot == <<"user", ".">>
K_empty == <<>>

\* JSON values: null, string, mapping (keys and strings are token sequences),
\* boolean, integer, list.
JNull == [t |-> "null"]
JStr(s) == [t |-> "str", v |-> s]
JDict(f) == [t |-> "dict", v |-> f]
JBool(b) == [t |-> "bool", v |-> b]
JNum(n) == [t |-> "num", v |-> n]
JList(s) == [t |-> "list", v |-> s]

\* str.split(sep): the pieces between the occurrences of sep.
RECURSIVE SplitOn(_, _)
SplitOn(s, sep) ==
    IF \A i \in 1..Len(s) : s[i] # sep
    THEN <<s>>
    ELSE LET i == CHOOSE j \in 1..Len(s) :
                      /\ s[j] = sep
                      /\ \A m \in 1..(j - 1) : s[m] # sep
         IN <<SubSeq(s, 1, i - 1)>> \o SplitOn(SubSeq(s, i + 1, Len(s)), sep)

\* An exception raised in place of a value.
Raised(exc) == [t |-> "raise", exc |-> exc]

\* Variant: d[k], which raises KeyError when the key is absent.
DictIndex(d, k) == IF k \in DOMAIN d THEN d[k] ELSE Raised("KeyError")

\* dict.get(k): the value, or None when the key is absent.
DictGet(d, k) == IF k \in DOMAIN d THEN d[k] ELSE JNull

\* The loop of _deep_get over the split keys (an exception raised by a
\* lookup would leave the loop).
RECURSIVE Walk(_, _)
Walk(res, keys) ==
    IF keys = <<>> \/ res.t = "raise" THEN res
    ELSE IF res.t = "dict"
         THEN Walk(DictGet(res.v, Head(keys)), Tail(keys))
         ELSE JNull

\* Variant: the walk starts at the second key of the path.
DeepGetSkipsFirst(data, key) == Walk(data, Tail(SplitOn(key, ".")))

\* _deep_get(data, key)
DeepGet(data, key) == Walk(data, SplitOn(key, "."))

\* Variant: a field that resolves to None is left out of the projection.
PickFieldsPresentOnly(item, fields) ==
    JDict([f \in {fields[i] : i \in {j \in DOMAIN fields : Walk(item, SplitOn(fields[j], ".")) # JNull}}
              |-> Walk(item, SplitOn(f, "."))])

\* _pick_fields(item, fields): {f: _deep_get(item, f) for f in fields}
PickFields(item, fields) ==
    JDict([f \in {fields[i] : i \in DOMAIN fields} |-> DeepGet(item, f)])

\* ---------------------------------------------------------- FieldsSpec
\* Longest allow-list explored.
MaxFields == 2
\* Successive projections applied to one record.
MaxProjections == 2

TopKeys == {K_id, K_user, K_user_name}
InnerDicts == {JDict(f) : f \in UNION {[D -> {JStr(<<"a">>), JNull}] : D \in SUBSET {K_name}}}
TopValues == {JNull, JStr(<<"a">>)} \cup InnerDicts
Records == {JDict(f) : f \in UNION {[D -> TopValues] : D \in SUBSET TopKeys}}
Paths == {K_id, K_user, K_name, K_user_name, K_user_dot, K_empty}
FieldLists == UNION {[1..n -> Paths] : n \in 0..MaxFields}

\* The path contains no dot: it names a top-level key.
IsFlat(path) == \A i \in 1..Len(path) : path[i] # "."

PagerIdle ==
    /\ limit = 0
    /\ page = 1
    /\ yielded = 0
    /\ items = 0
    /\ hint = NoHint
    /\ idx = 0
    /\ pc = "idle"
    /\ err = NONE
    /\ requests = <<>>
    /\ served = <<>>
    /\ out = <<>>
    /\ pulls = 0
    /\ stopped = FALSE

FieldsInit ==
    /\ PagerIdle
    /\ ctx = NoCtx
    /\ cmd = "fields"
    /\ HandlerIdle
    /\ input \in {[item |-> r, fields |-> F] : r \in Records, F \in FieldLists}
    /\ result = <<>>

\* _pick_fields applied to the record, then to its own result.
Project ==
    /\ cmd = "fields"
    /\ Len(result) < MaxProjections
    /\ result' = Append(result,
                        PickFields(IF result = <<>> THEN input.item
                                   ELSE result[Len(result)],
                                   input.fields))
    /\ UNCHANGED <<pagerVars, logVars, consumerVars, cmdVars, input>>

FieldsNext == Project

FieldsSpec == FieldsInit /\ [][FieldsNext]_vars

\* C10 (as stated): projecting twice onto F equals projecting once, for
\* every record and every allow-list of dot-paths.
C10_Idempotent == Len(result) >= 2 => result[2] = result[1]

\* C10 (amended): projecting twice equals projecting once when no entry of
\* F contains a dot.
C10_FlatIdempotent ==
    (Len(result) >= 2 /\ \A i \in DOMAIN input.fields : IsFlat(input.fields[i]))
        => result[2] = result[1]

C10_Witness ==
    /\ cmd = "fields"
    /\ Len(result) = 2
    /\ input.fields = <<K_id, K_user>>
    /\ DOMAIN input.item.v = TopKeys
    /\ input.item.v[K_user] = JDict([k \in {K_name} |-> JStr(<<"a">>)])
    /\ input.item.v[K_id] = JStr(<<"a">>)
    /\ result[1] # input.item
    /\ result[2] = JDict([k \in {K_id, K_user} |-> input.item.v[k]])

\* ========================================================= OutputContext
\* Variant: tests the truthiness of json_fields and jq_expr, not `is not None`.
IsJsonModeTruthy(c) ==
    \/ c.force_json
    \/ (c.json_fields # NONE /\ c.json_fields[1] # <<>>)
    \/ (c.jq_expr # NONE /\ c.jq_expr[1] # <<>>)

\* OutputContext.is_json_mode
IsJsonMode(c) == c.force_json \/ c.json_fields # NONE \/ c.jq_expr # NONE

\* `if self.json_fields:` / `if self.jq_expr:` (None and empty are falsy)
Truthy(opt) == opt # NONE /\ opt[1] # <<>>

\* ---- text: characters that matter to the output formats are tokens
TAB == "\t"
LF == "\n"
QUOTE == "\""
BACKSLASH == "\\"

\* sep.join(parts)
RECURSIVE Join(_, _)
Join(parts, sep) ==
    IF parts = <<>> THEN <<>>
    ELSE IF Len(parts) = 1 THEN parts[1]
    ELSE parts[1] \o sep \o Join(Tail(parts), sep)

\* n spaces
Spaces(n) == [i \in 1..n |-> " "]

\* The keys of the records explored, in the order the records hold them
\* (a dict is serialized in its insertion order; every record here inserts
\* its keys in this order).
KeyOrder ==
    <<K_id, K_name, K_user, K_user_name, K_user_dot, K_empty,
      (<<"tags">>), (<<"k">>)>>

KeysInOrder(d) == SelectSeq(KeyOrder, LAMBDA k : k \in DOMAIN d)

\* json.dumps of a string: quoted, control characters and quotes escaped.
RECURSIVE EscapeStr(_)
EscapeStr(s) ==
    IF s = <<>> THEN <<>>
    ELSE (IF Head(s) = TAB THEN <<BACKSLASH, "t">>
          ELSE IF Head(s) = LF THEN <<BACKSLASH, "n">>
          ELSE IF Head(s) = QUOTE THEN <<BACKSLASH, QUOTE>>
          ELSE IF Head(s) = BACKSLASH THEN <<BACKSLASH, BACKSLASH>>
          ELSE <<Head(s)>>) \o EscapeStr(Tail(s))

DumpsStr(s) == <<QUOTE>> \o EscapeStr(s) \o <<QUOTE>>

\* json.dumps(indent=None): items separated by ", ", on one line.
NoIndent == -1

\* json.dumps(v, indent=ind) at nesting depth level. With indent None the
\* item separator is ", "; with an indent it is "," and every item starts
\* a line indented by ind * depth. The key separator is ": " in both.
RECURSIVE Dumps(_, _, _)
Dumps(v, ind, level) ==
    LET nl(l) == IF ind = NoIndent THEN <<>> ELSE <<LF>> \o Spaces(ind * l)
        itemSep == IF ind = NoIndent THEN <<",", " ">> ELSE <<",">>
    IN  IF v.t = "null" THEN <<"null">>
        ELSE IF v.t = "bool" THEN (IF v.v THEN <<"true">> ELSE <<"false">>)
        ELSE IF v.t = "num" THEN <<ToString(v.v)>>
        ELSE IF v.t = "str" THEN DumpsStr(v.v)
        ELSE IF v.t = "list"
        THEN IF v.v = <<>> THEN <<"[", "]">>
             ELSE <<"[">>
                  \o Join([i \in DOMAIN v.v |->
                              nl(level + 1) \o Dumps(v.v[i], ind, level + 1)],
                          itemSep)
                  \o nl(level) \o <<"]">>
        ELSE IF DOMAIN v.v = {} THEN <<"{", "}">>
             ELSE LET ks == KeysInOrder(v.v)
                  IN  <<"{">>
                      \o Join([i \in DOMAIN ks |->
                                  nl(level + 1) \o DumpsStr(ks[i]) \o <<":", " ">>
                                  \o Dumps(v.v[ks[i]], ind, level + 1)],
                              itemSep)
                      \o nl(level) \o <<"}">>

\* str(value) of a scalar
PyStr(v) ==
    IF v.t = "null" THEN <<"None">>
    ELSE IF v.t = "bool" THEN (IF v.v THEN <<"True">> ELSE <<"False">>)
    ELSE IF v.t = "num" THEN <<ToString(v.v)>>
    ELSE v.v

\* str.lower() (the tokens with capitals are those of str(bool) and None)
Lower(s) ==
    [i \in DOMAIN s |->
        IF s[i] = "True" THEN "true"
        ELSE IF s[i] = "False" THEN "false"
        ELSE IF s[i] = "None" THEN "none"
        ELSE s[i]]

\* Variant: a boolean is formatted by str() alone.
FormatValueNoLower(v) ==
    IF v.t = "null" THEN <<>>
    ELSE IF v.t \in {"list", "dict"} THEN Dumps(v, NoIndent, 0)
    ELSE PyStr(v)

\* _format_value(value): the text of a cell.
FormatValue(v) ==
    IF v.t = "null" THEN <<>>
    ELSE IF v.t = "bool" THEN Lower(PyStr(v))
    ELSE IF v.t \in {"list", "dict"} THEN Dumps(v, NoIndent, 0)
    ELSE PyStr(v)

\* _format_value(row.get(col, ""))
Cell(row, col) ==
    IF col \in DOMAIN row.v THEN FormatValue(row.v[col])
    ELSE FormatValue(JStr(<<>>))

\* Variant: no branch for None, which str() renders as "None".
FmtNoNull(v) ==
    IF v.t = "bool" THEN Lower(PyStr(v))
    ELSE IF v.t \in {"list", "dict"} THEN Dumps(v, NoIndent, 0)
    ELSE PyStr(v)

\* formatters.table._fmt(value)
Fmt(v) ==
    IF v.t = "null" THEN <<>>
    ELSE IF v.t = "bool" THEN Lower(PyStr(v))
    ELSE IF v.t \in {"list", "dict"} THEN Dumps(v, NoIndent, 0)
    ELSE PyStr(v)

\* Outcomes of the jq subprocess: it ran, it is not on PATH, it reported an
\* error (FileNotFoundError / CalledProcessError in _apply_jq).
JqOutcomes == {"ok", "absent", "failed"}

\* What a render call does: writes to stdout, writes to stderr, and the
\* status of a SystemExit it raised (Running when it returned).
Effect(b, o, e, x) == [branch |-> b, out |-> o, errs |-> e, exit |-> x]

\* Variant: the quiet flag is not consulted.
StatusAlways(c, msg) == <<[kind |-> "status", msg |-> msg]>>

\* OutputContext.status(msg)
Status(c, msg) ==
    IF ~c.quiet THEN <<[kind |-> "status", msg |-> msg]>> ELSE <<>>

\* OutputContext.error(msg)
ErrorLine(msg) == <<[kind |-> "error", msg |-> msg]>>

\* The error lines of _apply_jq (the text jq wrote to its stderr is one
\* token; the backquotes around the first jq are left out).
JqErrorLine(jq) ==
    IF jq = "absent"
    THEN ErrorLine(<<"error: ", "jq is required for --jq flag but was not found in PATH">>)
    ELSE ErrorLine(<<"error: ", "jq failed: ", "e.stderr.strip()">>)

\* data = [_pick_fields(item, self.json_fields) for item in data] when
\* json_fields is truthy
Projected(c, data) ==
    IF Truthy(c.json_fields)
    THEN [i \in DOMAIN data |-> PickFields(data[i], c.json_fields[1])]
    ELSE data

\* Variant: the document is serialized before the projection is applied.
JqInputUnprojected(c, data) == Dumps(JList(data), 2, 0)

\* json_str = json.dumps(data, indent=2, default=str), the text _apply_jq
\* pipes into jq
JqInput(c, data) == Dumps(JList(Projected(c, data)), 2, 0)

\* What jq prints for a filter that succeeds: its result (one token),
\* ended by a newline.
JqStdout(expr, json_str) == <<"jq-result", LF>>

\* str.rstrip(): trailing whitespace removed
RECURSIVE Rstrip(_)
Rstrip(s) ==
    IF s # <<>> /\ s[Len(s)] \in {LF, TAB, " "}
    THEN Rstrip(SubSeq(s, 1, Len(s) - 1))
    ELSE s

\* _apply_jq(json_str, expr) when jq succeeds: result.stdout.rstrip()
ApplyJq(json_str, expr) == Rstrip(JqStdout(expr, json_str))

\* Variant: when jq cannot be run or fails, the unfiltered document is
\* written and the call returns.
RenderJsonFallback(c, data, jq) ==
    LET projected == Projected(c, data)
        doc == [kind |-> "json.dumps", indent |-> 2, of |-> projected,
                text |-> Dumps(JList(projected), 2, 0) \o <<LF>>]
    IN  IF Truthy(c.jq_expr) /\ jq = "ok"
        THEN Effect("json",
                    <<[kind |-> "jq", expr |-> c.jq_expr[1], stdin |-> doc,
                      piped |-> JqInput(c, data),
                      text |-> ApplyJq(JqInput(c, data), c.jq_expr[1]) \o <<LF>>]>>,
                    <<>>, Running)
        ELSE Effect("json", <<doc>>, <<>>, Running)

\* OutputContext._render_json(data) with _apply_jq
RenderJson(c, data, jq) ==
    LET projected == Projected(c, data)
        doc == [kind |-> "json.dumps", indent |-> 2, of |-> projected,
                text |-> Dumps(JList(projected), 2, 0) \o <<LF>>]
    IN  IF Truthy(c.jq_expr)
        THEN IF jq = "ok"
             THEN Effect("json",
                         <<[kind |-> "jq", expr |-> c.jq_expr[1], stdin |-> doc,
                           piped |-> JqInput(c, data),
                           text |-> ApplyJq(JqInput(c, data), c.jq_expr[1]) \o <<LF>>]>>,
                         <<>>, Running)
             ELSE Effect("json", <<>>, JqErrorLine(jq), ERROR)
        ELSE Effect("json", <<doc>>, <<>>, Running)

\* OutputContext._render_rich_table(rows, columns): one console.print
RenderRichTable(rws, cols) ==
    Effect("table",
           <<[kind |-> "table",
              header |-> [j \in DOMAIN cols |-> [upper |-> cols[j]]],
              body |-> [i \in DOMAIN rws |-> [j \in DOMAIN cols |-> Cell(rws[i], cols[j])]]]>>,
           <<>>, Running)

\* OutputContext._render_tsv(rows, columns): one write per row,
\* "\t".join(values) + "\n"
RenderTsv(rws, cols) ==
    Effect("tsv",
           [i \in DOMAIN rws |->
                [kind |-> "tsv",
                 text |-> Join([j \in DOMAIN cols |-> Cell(rws[i], cols[j])], <<TAB>>)
                          \o <<LF>>]],
           <<>>, Running)

\* Variant: the empty list is tested before the JSON mode.
RenderTableEmptyFirst(c, rws, cols, jq) ==
    IF rws = <<>>
    THEN Effect("status", <<>>, Status(c, "No results found."), Running)
    ELSE IF IsJsonMode(c) THEN RenderJson(c, rws, jq)
    ELSE IF c.is_tty THEN RenderRichTable(rws, cols)
    ELSE RenderTsv(rws, cols)

\* OutputContext.render_table(rows, columns)
RenderTable(c, rws, cols, jq) ==
    IF IsJsonMode(c) THEN RenderJson(c, rws, jq)
    ELSE IF rws = <<>>
    THEN Effect("status", <<>>, Status(c, "No results found."), Running)
    ELSE IF c.is_tty THEN RenderRichTable(rws, cols)
    ELSE RenderTsv(rws, cols)

\* OutputContext.render_detail(data, fields); fields are <<label, key>> pairs
RenderDetail(c, data, fields, jq) ==
    IF IsJsonMode(c) THEN RenderJson(c, <<data>>, jq)
    ELSE IF c.is_tty
    THEN Effect("table",
                <<[kind |-> "detail",
                   body |-> [i \in DOMAIN fields |->
                                <<fields[i][1], FormatValue(DeepGet(data, fields[i][2]))>>]]>>,
                <<>>, Running)
    ELSE Effect("tsv",
                [i \in DOMAIN fields |->
                    [kind |-> "tsv",
                     text |-> fields[i][1] \o <<TAB>>
                              \o FormatValue(DeepGet(data, fields[i][2]))
                              \o <<LF>>]],
                <<>>, Running)

\* ----------------------------------------------------------- RenderSpec
\* Every OutputContext the dataclass constructor accepts (on these values).
Contexts ==
    [force_json : BOOLEAN,
     json_fields : {NONE, Some(<<>>), Some(<<K_id>>), Some(<<K_id, K_user_name>>)},
     jq_expr : {NONE, Some(<<>>), Some(<<".", "id">>)},
     quiet : BOOLEAN,
     is_tty : BOOLEAN]

SampleRow1 == JDict([k \in {K_id, K_user} |->
                        IF k = K_id THEN JStr(<<"1">>)
                        ELSE JDict([n \in {K_name} |-> JStr(<<"a">>)])])
SampleRow2 == JDict([k \in {K_id, K_name} |->
                        IF k = K_id THEN JStr(<<"2">>) ELSE JNull])
\* A record with a tab inside a string, a boolean and a list.
SampleRow3 == JDict([k \in {K_id, K_name, K_user} |->
                        IF k = K_id THEN JStr(<<"a", TAB, "b">>)
                        ELSE IF k = K_name THEN JBool(TRUE)
                        ELSE JList(<<JStr(<<"a">>), JStr(<<"b">>)>>)])
\* A record with a line break inside a string, and a number.
SampleRow4 == JDict([k \in {K_id, K_name} |->
                        IF k = K_id THEN JNum(4) ELSE JStr(<<"x", LF, "y">>)])
RowLists ==
    {<<>>, <<SampleRow1>>, <<SampleRow1, SampleRow2>>, <<SampleRow3>>,
     <<SampleRow2, SampleRow4>>}
SampleColumns == <<K_id, K_name, K_user>>
SampleDetail == <<(<<(<<"ID">>), K_id>>), (<<(<<"User">>), K_user_name>>)>>

RenderInit ==
    /\ PagerIdle
    /\ ctx \in Contexts
    /\ cmd = "render"
    /\ rows \in RowLists
    /\ stdout = <<>>
    /\ stderr = <<>>
    /\ exitCode = Running
    /\ closed = 0
    /\ renders = 0
    /\ FnIdle

\* The streams and exit status after one render call with effect eff.
Apply(op, eff) ==
    /\ stdout' = stdout \o eff.out
    /\ stderr' = stderr \o eff.errs
    /\ exitCode' = eff.exit
    /\ renders' = renders + 1
    /\ result' = Some([op |-> op, branch |-> eff.branch])

\* output.render_table(rows, columns)
DoRenderTable ==
    /\ cmd = "render"
    /\ renders = 0
    /\ \E jq \in JqOutcomes :
          /\ Apply("render_table", RenderTable(ctx, rows, SampleColumns, jq))
          /\ input' = Some([jq |-> jq])
    /\ UNCHANGED <<pagerVars, logVars, consumerVars, ctx, cmd, rows, closed>>

\* output.render_detail(data, fields) on the first row
DoRenderDetail ==
    /\ cmd = "render"
    /\ renders = 0
    /\ rows # <<>>
    /\ \E jq \in JqOutcomes :
          /\ Apply("render_detail", RenderDetail(ctx, rows[1], SampleDetail, jq))
          /\ input' = Some([jq |-> jq])
    /\ UNCHANGED <<pagerVars, logVars, consumerVars, ctx, cmd, rows, closed>>

RenderNext == DoRenderTable \/ DoRenderDetail

RenderSpec == RenderInit /\ [][RenderNext]_vars

\* C9: render_table and render_detail take the JSON path iff force_json is
\* set or json_fields is set or jq_expr is set, whatever isTTY is; otherwise
\* records are laid out as a table iff isTTY and as TSV iff not (with no
\* record to lay out, render_table only issues its notice).
C9_ModeSelection ==
    (cmd = "render" /\ result # NONE) =>
        LET b == result[1].branch
            json == ctx.force_json \/ ctx.json_fields # NONE \/ ctx.jq_expr # NONE
            empty == result[1].op = "render_table" /\ rows = <<>>
        IN  /\ (b = "json") <=> json
            /\ (~json /\ ~empty) =>
                  /\ (b = "table") <=> ctx.is_tty
                  /\ (b = "tsv") <=> ~ctx.is_tty
            /\ (~json /\ empty) => b = "status"
            /\ (b = "json" /\ exitCode = Running)
                  => Len(stdout) = 1 /\ stdout[1].kind \in {"json.dumps", "jq"}
            /\ b = "table"
                  => Len(stdout) = 1 /\ stdout[1].kind \in {"table", "detail"}
            /\ b = "tsv"
                  => stdout # <<>> /\ \A i \in DOMAIN stdout : stdout[i].kind = "tsv"

C9_Witness ==
    /\ cmd = "render"
    /\ result # NONE
    /\ result[1] = [op |-> "render_table", branch |-> "json"]
    /\ ctx.is_tty
    /\ ~ctx.force_json
    /\ ctx.json_fields = Some(<<>>)
    /\ ctx.jq_expr = NONE
    /\ Len(rows) = 2
    /\ Len(stdout) = 1

\* ============================================================== CmdSpec
\* The `traces list` handler: client.list_traces (list(_paginate)), then
\* output.render_table, `except LangfuseAPIError`, `finally: client.close()`.

\* Values of --limit explored for the handler.
CmdLimits == {0, 1, ShortLen + 1}

\* Global flags parsed by main(); --fields and --jq take a string.
Flags ==
    [output_json : BOOLEAN,
     json_fields : {NONE, Some(<<>>), Some(<<"id", ",", "user", ".", "name">>)},
     jq_expr : {NONE, Some(<<".", "id">>)},
     quiet : BOOLEAN]

\* main(): the OutputContext built from the flags and the terminal state.
MainContext(f, tty) ==
    LET is_json == f.output_json \/ f.json_fields # NONE \/ f.jq_expr # NONE
        parsed_fields == IF Truthy(f.json_fields)
                         THEN Some(SplitOn(f.json_fields[1], ","))
                         ELSE NONE
    IN  [force_json |-> is_json,
         json_fields |-> IF is_json THEN parsed_fields ELSE NONE,
         jq_expr |-> f.jq_expr,
         quiet |-> f.quiet,
         is_tty |-> tty]

\* columns passed by list_traces
TraceColumns == <<(<<"id">>), (<<"name">>), (<<"userId">>), (<<"sessionId">>),
                  (<<"timestamp">>), (<<"tags">>)>>

\* The trace record the transport served as item `it`.
TraceRecord(it) == JDict([k \in {K_id} |-> JStr(<<ToString(it)>>)])

CmdInit ==
    /\ limit \in CmdLimits
    /\ PagerInit
    /\ ctx \in {MainContext(f, tty) : f \in Flags, tty \in BOOLEAN}
    /\ cmd = "listing"
    /\ HandlerIdle
    /\ FnIdle

\* client.list_traces returns list(self._paginate(...)).
ListReturn ==
    /\ cmd = "listing"
    /\ pc = "done"
    /\ rows' = [i \in DOMAIN out |-> TraceRecord(out[i])]
    /\ cmd' = "render"
    /\ UNCHANGED <<pagerVars, logVars, consumerVars, ctx, stdout, stderr,
                   exitCode, closed, renders, fnVars>>

\* output.render_table(traces, columns=[...]); a SystemExit raised by
\* _apply_jq passes through `except LangfuseAPIError` to `finally`.
Render ==
    /\ cmd = "render"
    /\ \E jq \in JqOutcomes :
          LET eff == RenderTable(ctx, rows, TraceColumns, jq) IN
          /\ stdout' = stdout \o eff.out
          /\ stderr' = stderr \o eff.errs
          /\ exitCode' = IF eff.exit = Running THEN SUCCESS ELSE eff.exit
    /\ renders' = renders + 1
    /\ cmd' = "finally"
    /\ UNCHANGED <<pagerVars, logVars, consumerVars, ctx, rows, closed, fnVars>>

\* Variant: the handler renders the records fetched before the failure.
HandleErrorPartial ==
    /\ cmd = "listing"
    /\ pc = "raised"
    /\ stdout' = stdout \o RenderTable(ctx, [i \in DOMAIN out |-> TraceRecord(out[i])],
                                       TraceColumns, "ok").out
    /\ stderr' = stderr \o ErrorLine(<<"error: ", err[1]>>)
    /\ exitCode' = err[1].exit_code
    /\ renders' = renders + 1
    /\ cmd' = "finally"
    /\ UNCHANGED <<pagerVars, logVars, consumerVars, ctx, rows, closed, fnVars>>

\* except LangfuseAPIError as e: output.error(f"error: {e}");
\* raise typer.Exit(e.exit_code)
HandleError ==
    /\ cmd = "listing"
    /\ pc = "raised"
    /\ stderr' = stderr \o ErrorLine(<<"error: ", err[1]>>)
    /\ exitCode' = err[1].exit_code
    /\ cmd' = "finally"
    /\ UNCHANGED <<pagerVars, logVars, consumerVars, ctx, rows, stdout,
                   closed, renders, fnVars>>

\* Exit status of the interpreter after an exception nobody caught.
UncaughtExit == 1

\* An exception that is no LangfuseAPIError passes the except clause: the
\* finally clause runs, then the interpreter prints the traceback.
Crash ==
    /\ cmd = "listing"
    /\ pc = "crashed"
    /\ stderr' = stderr \o <<[kind |-> "traceback", msg |-> <<"json.JSONDecodeError">>]>>
    /\ exitCode' = UncaughtExit
    /\ cmd' = "finally"
    /\ UNCHANGED <<pagerVars, logVars, consumerVars, ctx, rows, stdout,
                   closed, renders, fnVars>>

\* finally: client.close(); then the process exits with exitCode.
Close ==
    /\ cmd = "finally"
    /\ closed' = closed + 1
    /\ cmd' = "exited"
    /\ UNCHANGED <<pagerVars, logVars, consumerVars, ctx, rows, stdout, stderr,
                   exitCode, renders, fnVars>>

CmdNext ==
    \/ Pull
    \/ Loop
    \/ ForStep
    \/ AfterPage
    \/ ListReturn
    \/ Render
    \/ HandleError
    \/ Crash
    \/ Close

CmdSpec == CmdInit /\ [][CmdNext]_vars

StepGet(v, k) == IF v.t = "dict" /\ k \in DOMAIN v.v THEN v.v[k] ELSE JNull

RECURSIVE ValueAfter(_, _, _)
ValueAfter(data, keys, n) ==
    IF n = 0 THEN data ELSE StepGet(ValueAfter(data, keys, n - 1), keys[n])

Resolved(data, path) ==
    LET keys == SplitOn(path, ".") IN ValueAfter(data, keys, Len(keys))

\* The records a finished render call was given.
Rendered ==
    IF result[1].op = "render_detail" THEN <<rows[1]>> ELSE rows

\* The document a JSON-mode render serialized: the one written to stdout,
\* or the one handed to jq.
JsonDoc == IF stdout[1].kind = "jq" THEN stdout[1].stdin ELSE stdout[1]

\* The records of the serialized document have exactly the entries of F as
\* keys, each mapped to what its dot-path resolves to in the source record.
ProjectedOnto(F) ==
    /\ Len(JsonDoc.of) = Len(Rendered)
    /\ \A i \in DOMAIN JsonDoc.of :
          /\ JsonDoc.of[i].t = "dict"
          /\ DOMAIN JsonDoc.of[i].v = {F[j] : j \in DOMAIN F}
          /\ \A j \in DOMAIN F :
                JsonDoc.of[i].v[F[j]] = Resolved(Rendered[i], F[j])

JsonRendered ==
    /\ cmd = "render"
    /\ result # NONE
    /\ result[1].branch = "json"
    /\ exitCode = Running

\* C11 as stated: in JSON mode with an allow-list F configured (any list,
\* possibly empty), every emitted record has exactly the entries of F as
\* keys (literal, unexpanded), each mapped to its dot-path-resolved value
\* or null, and no other key.
C11_AnyAllowList ==
    (JsonRendered /\ ctx.json_fields # NONE) => ProjectedOnto(ctx.json_fields[1])

\* C11 amended: the same for a non-empty allow-list F (an empty list
\* projects nothing: the records are emitted with all their keys).
C11_NonEmptyAllowList ==
    (JsonRendered /\ Truthy(ctx.json_fields)) => ProjectedOnto(ctx.json_fields[1])

C11_Witness ==
    /\ JsonRendered
    /\ ctx.json_fields = Some(<<K_id, K_user_name>>)
    /\ rows = <<SampleRow1, SampleRow2>>
    /\ result[1].op = "render_table"
    /\ stdout[1].kind = "json.dumps"
    /\ stdout[1].of[1] = JDict([k \in {K_id, K_user_name} |->
                                   IF k = K_id THEN JStr(<<"1">>) ELSE JStr(<<"a">>)])
    /\ stdout[1].of[2] = JDict([k \in {K_id, K_user_name} |->
                                   IF k = K_id THEN JStr(<<"2">>) ELSE JNull])

\* ========================================================== DeepGetSpec
\* _deep_get applied to one value and one dot-path.
K_dot_id == <<".", "id">>
K_id_dot == <<"id", ".">>
K_dot == <<".">>
K_id_name == <<"id", ".", "name">>
K_user_dot_dot_name == <<"user", ".", ".", "name">>
K_user_name_id == <<"user", ".", "name", ".", "id">>

KeyPaths ==
    Paths \cup {K_dot_id, K_id_dot, K_dot, K_id_name, K_user_dot_dot_name,
                K_user_name_id}

\* A record with the empty string as a key, at both levels.
EmptyKeyed ==
    JDict([k \in {K_empty, K_id} |->
              IF k = K_id THEN JStr(<<"1">>)
              ELSE JDict([n \in {K_empty} |-> JStr(<<"e">>)])])

\* The values _deep_get is handed: records, and values that are no mapping.
DeepGetData ==
    Records \cup {EmptyKeyed, JNull, JStr(<<"a">>), JBool(TRUE), JNum(1),
                  JList(<<JStr(<<"a">>)>>)}

DeepGetInit ==
    /\ PagerIdle
    /\ ctx = NoCtx
    /\ cmd = "deep_get"
    /\ HandlerIdle
    /\ input \in [data : DeepGetData, key : KeyPaths]
    /\ result = NONE

\* _deep_get(data, key)
DoDeepGet ==
    /\ cmd = "deep_get"
    /\ result = NONE
    /\ result' = Some(DeepGet(input.data, input.key))
    /\ UNCHANGED <<pagerVars, logVars, consumerVars, cmdVars, input>>

DeepGetNext == DoDeepGet

DeepGetSpec == DeepGetInit /\ [][DeepGetNext]_vars

\* C12: _deep_get raises for no record and no dot-path (the empty string,
\* leading and trailing dots, paths through values that are no mapping
\* included); it returns the value reached by walking the mapping keys, or
\* null as soon as a key is absent or the value walked into is no mapping.
C12_NeverRaises ==
    (cmd = "deep_get" /\ result # NONE) =>
        /\ result[1].t # "raise"
        /\ result[1] = Resolved(input.data, input.key)

C12_Witness ==
    /\ cmd = "deep_get"
    /\ result = Some(JNull)
    /\ input.key = K_id_name
    /\ input.data.t = "dict"
    /\ K_id \in DOMAIN input.data.v
    /\ input.data.v[K_id] = JStr(<<"a">>)

\* =========================================================== FormatSpec
\* _format_value and _fmt applied to one value, and the two layouts of
\* render_table applied to a one-record list holding it.

\* Longest list among the values formatted.
MaxItems == 2

K_tags == <<"tags">>
K_k == <<"k">>

Scalars ==
    {JNull, JBool(TRUE), JBool(FALSE), JNum(0), JNum(42),
     JStr(<<>>), JStr(<<"a">>), JStr(<<"b">>), JStr(<<"a", TAB, "b">>)}

ListValues == {JList(q) : q \in UNION {[1..n -> Scalars] : n \in 0..MaxItems}}

DictValues == {JDict(f) : f \in UNION {[D -> Scalars] : D \in SUBSET {K_k, K_tags}}}

\* Composite values inside composite values.
Nested ==
    {JList(<<JList(<<JStr(<<"a">>)>>), JDict([k \in {K_k} |-> JBool(TRUE)])>>),
     JDict([k \in {K_k, K_tags} |->
               IF k = K_k THEN JDict([n \in {K_k} |-> JNull])
               ELSE JList(<<JStr(<<"a">>), JStr(<<"b">>)>>)])}

FormatInputs == Scalars \cup ListValues \cup DictValues \cup Nested

\* The columns laid out: the one holding the value, and one the record lacks.
FormatColumns == <<K_tags, K_name>>

\* The one-record list laid out.
RowOf(v) == <<JDict([k \in {K_tags} |-> v])>>

NoResults == [format_value |-> NONE, fmt |-> NONE, table |-> NONE, tsv |-> NONE]

FormatInit ==
    /\ PagerIdle
    /\ ctx = NoCtx
    /\ cmd = "format"
    /\ HandlerIdle
    /\ input \in FormatInputs
    /\ result = NoResults

FormatFrame == UNCHANGED <<pagerVars, logVars, consumerVars, cmdVars, input>>

\* _format_value(value)
DoFormatValue ==
    /\ cmd = "format"
    /\ result.format_value = NONE
    /\ result' = [result EXCEPT !.format_value = Some(FormatValue(input))]
    /\ FormatFrame

\* formatters.table._fmt(value)
DoFmt ==
    /\ cmd = "format"
    /\ result.fmt = NONE
    /\ result' = [result EXCEPT !.fmt = Some(Fmt(input))]
    /\ FormatFrame

\* _render_rich_table(rows, columns): the cells of the row added
DoTableRow ==
    /\ cmd = "format"
    /\ result.table = NONE
    /\ result' = [result EXCEPT !.table =
                     Some(RenderRichTable(RowOf(input), FormatColumns).out[1].body[1])]
    /\ FormatFrame

\* _render_tsv(rows, columns): the line written
DoTsvRow ==
    /\ cmd = "format"
    /\ result.tsv = NONE
    /\ result' = [result EXCEPT !.tsv =
                     Some(RenderTsv(RowOf(input), FormatColumns).out[1].text)]
    /\ FormatFrame

FormatNext == DoFormatValue \/ DoFmt \/ DoTableRow \/ DoTsvRow

FormatSpec == FormatInit /\ [][FormatNext]_vars

\* The one-line JSON text of a value, its items separated by itemSep and
\* its keys from their values by keySep.
RECURSIVE JsonText(_, _, _)
JsonText(v, itemSep, keySep) ==
    IF v.t = "null" THEN <<"null">>
    ELSE IF v.t = "bool" THEN (IF v.v THEN <<"true">> ELSE <<"false">>)
    ELSE IF v.t = "num" THEN <<ToString(v.v)>>
    ELSE IF v.t = "str" THEN DumpsStr(v.v)
    ELSE IF v.t = "list"
    THEN <<"[">>
         \o Join([i \in DOMAIN v.v |-> JsonText(v.v[i], itemSep, keySep)], itemSep)
         \o <<"]">>
    ELSE LET ks == KeysInOrder(v.v)
         IN  <<"{">>
             \o Join([i \in DOMAIN ks |->
                         DumpsStr(ks[i]) \o keySep \o JsonText(v.v[ks[i]], itemSep, keySep)],
                     itemSep)
             \o <<"}">>

\* The cell text the formatting rule gives a value, for given separators.
CellText(v, itemSep, keySep) ==
    IF v.t = "null" THEN <<>>
    ELSE IF v.t = "bool" THEN (IF v.v THEN <<"true">> ELSE <<"false">>)
    ELSE IF v.t \in {"list", "dict"} THEN JsonText(v, itemSep, keySep)
    ELSE IF v.t = "num" THEN <<ToString(v.v)>>
    ELSE v.v

Formatted == cmd = "format" /\ result.format_value # NONE

\* C13 as stated: _format_value maps null to "", a boolean to lowercase
\* true/false, a list or mapping to its compact JSON string (the list
\* ["a","b"] to the string ["a","b"], no space after the comma), anything
\* else to its natural string form.
C13_CompactJson ==
    Formatted => result.format_value[1] = CellText(input, <<",">>, <<":">>)

\* C13 amended: the same, with a list or mapping mapped to its one-line
\* JSON string in the default layout of json.dumps: items separated by
\* ", " and keys from values by ": " (the list ["a","b"] to ["a", "b"]).
C13_DefaultJson ==
    Formatted => result.format_value[1] = CellText(input, <<",", " ">>, <<":", " ">>)

C13_Witness ==
    /\ Formatted
    /\ input = JList(<<JStr(<<"a">>), JStr(<<"b">>)>>)
    /\ result.format_value[1] =
          <<"[", QUOTE, "a", QUOTE, ",", " ", QUOTE, "b", QUOTE, "]">>

\* C14: for a record and a column list, the cell text of the table layout
\* is the field text of the TSV layout for every column (missing, null,
\* boolean and composite values included), and the standalone formatter
\* _fmt gives every value the text _format_value gives it.
C14_SameCells ==
    /\ (cmd = "format" /\ result.table # NONE /\ result.tsv # NONE) =>
          /\ Len(result.table[1]) = Len(FormatColumns)
          /\ result.tsv[1] = Join(result.table[1], <<TAB>>) \o <<LF>>
    /\ (cmd = "format" /\ result.fmt # NONE /\ result.format_value # NONE) =>
          result.fmt[1] = result.format_value[1]

C14_Witness ==
    /\ cmd = "format"
    /\ input = JDict([k \in {K_k} |-> JBool(FALSE)])
    /\ result.table = Some(<<(<<"{", QUOTE, "k", QUOTE, ":", " ", "false", "}">>), (<<>>)>>)
    /\ result.tsv = Some(<<"{", QUOTE, "k", QUOTE, ":", " ", "false", "}", TAB, LF>>)
    /\ result.fmt = Some(<<"{", QUOTE, "k", QUOTE, ":", " ", "false", "}">>)
    /\ result.format_value = result.fmt

\* ------------------------------------------------- render_table claims
TableRendered == cmd = "render" /\ result # NONE /\ result[1].op = "render_table"

JsonConfigured == ctx.force_json \/ ctx.json_fields # NONE \/ ctx.jq_expr # NONE

\* Number of occurrences of token c in text s.
Count(s, c) == Cardinality({i \in DOMAIN s : s[i] = c})

\* All the text written to stdout, in order.
RECURSIVE TextOf(_)
TextOf(writes) ==
    IF writes = <<>> THEN <<>> ELSE Head(writes).text \o TextOf(Tail(writes))

\* The text of column col of a record: its formatted value, the empty
\* string when the record lacks the column.
FieldText(row, col) ==
    IF col \in DOMAIN row.v THEN CellText(row.v[col], <<",", " ">>, <<":", " ">>)
    ELSE <<>>

\* C15: TSV mode writes exactly one line per record, in input order; each
\* line is the formatted values joined by single tabs, so it has exactly
\* len(columns) fields; a column the record lacks is the empty string,
\* never "null" or "None".
C15_TsvLines ==
    (TableRendered /\ result[1].branch = "tsv") =>
        /\ Len(stdout) = Len(rows)
        /\ \A i \in DOMAIN stdout :
              /\ stdout[i].text =
                    Join([j \in DOMAIN SampleColumns |-> FieldText(rows[i], SampleColumns[j])],
                         <<TAB>>) \o <<LF>>
              /\ Count(stdout[i].text, TAB) + 1 = Len(SampleColumns)
        /\ Count(TextOf(stdout), LF) = Len(rows)

C17_EmptyNotice ==
    (TableRendered /\ ~JsonConfigured /\ rows = <<>>) =>
        /\ stdout = <<>>
        /\ exitCode = Running
        /\ ~ctx.quiet => stderr = <<[kind |-> "status", msg |-> "No results found."]>>
        /\ ctx.quiet => stderr = <<>>

C17_Witness ==
    /\ TableRendered
    /\ ~JsonConfigured
    /\ rows = <<>>
    /\ ~ctx.quiet
    /\ ctx.is_tty
    /\ stdout = <<>>
    /\ stderr = <<[kind |-> "status", msg |-> "No results found."]>>

\* C19: with a jq expression to run and jq absent or reporting an error,
\* the render call ends the process with exit status 1 after writing one
\* "error:" line to stderr, and writes nothing to stdout (never the
\* unfiltered JSON).
C19_JqFailure ==
    (cmd = "render" /\ result # NONE /\ Truthy(ctx.jq_expr)
        /\ input[1].jq \in {"absent", "failed"}) =>
        /\ exitCode = ERROR
        /\ exitCode = 1
        /\ Len(stderr) = 1
        /\ stderr[1].kind = "error"
        /\ stderr[1].msg[1] = "error: "
        /\ stdout = <<>>

C19_Witness ==
    /\ TableRendered
    /\ ctx.jq_expr = Some(<<".", "id">>)
    /\ ~ctx.force_json
    /\ ctx.json_fields = NONE
    /\ rows = <<SampleRow1, SampleRow2>>
    /\ input = Some([jq |-> "absent"])
    /\ exitCode = ERROR
    /\ stdout = <<>>
    /\ stderr = JqErrorLine("absent")

\* ========================================================== MessageSpec
\* OutputContext.status and OutputContext.error called in any order.

\* Most calls made in one run.
MaxMessages == 2

Messages == {"Processing...", "Error occurred!"}

\* What stdout may hold before the calls.
EarlierOutput == {<<>>, <<[kind |-> "tsv", text |-> <<"1", LF>>]>>}

MessageInit ==
    /\ PagerIdle
    /\ ctx \in Contexts
    /\ cmd = "message"
    /\ rows = <<>>
    /\ stdout \in EarlierOutput
    /\ stderr = <<>>
    /\ exitCode = Running
    /\ closed = 0
    /\ renders = 0
    /\ input = stdout
    /\ result = <<>>

\* output.status(msg)
DoStatus ==
    /\ cmd = "message"
    /\ Len(result) < MaxMessages
    /\ \E msg \in Messages :
          /\ stderr' = stderr \o Status(ctx, msg)
          /\ result' = Append(result, [op |-> "status", msg |-> msg])
    /\ UNCHANGED <<pagerVars, logVars, consumerVars, ctx, cmd, rows, stdout,
                   exitCode, closed, renders, input>>

\* Variant: the error line goes to stdout.
DoErrorToStdout ==
    /\ cmd = "message"
    /\ Len(result) < MaxMessages
    /\ \E msg \in Messages :
          /\ stdout' = stdout \o ErrorLine(msg)
          /\ result' = Append(result, [op |-> "error", msg |-> msg])
    /\ UNCHANGED <<pagerVars, logVars, consumerVars, ctx, cmd, rows, stderr,
                   exitCode, closed, renders, input>>

\* output.error(msg)
DoError ==
    /\ cmd = "message"
    /\ Len(result) < MaxMessages
    /\ \E msg \in Messages :
          /\ stderr' = stderr \o ErrorLine(msg)
          /\ result' = Append(result, [op |-> "error", msg |-> msg])
    /\ UNCHANGED <<pagerVars, logVars, consumerVars, ctx, cmd, rows, stdout,
                   exitCode, closed, renders, input>>

MessageNext == DoStatus \/ DoError

MessageSpec == MessageInit /\ [][MessageNext]_vars

\* The calls whose line is written: every error call, and the status
\* calls of a context that is not quiet.
Shown == SelectSeq(result, LAMBDA c : c.op = "error" \/ ~ctx.quiet)

\* C18: status(msg) writes to stderr iff the context is not quiet;
\* error(msg) writes to stderr always; after any sequence of status and
\* error calls stdout is what it was.
C18_StderrOnly ==
    cmd = "message" =>
        /\ stdout = input
        /\ stderr = [i \in DOMAIN Shown |-> [kind |-> Shown[i].op, msg |-> Shown[i].msg]]

C18_Witness ==
    /\ cmd = "message"
    /\ ctx.quiet
    /\ result = <<[op |-> "status", msg |-> "Processing..."],
                  [op |-> "error", msg |-> "Error occurred!"]>>
    /\ stderr = <<[kind |-> "error", msg |-> "Error occurred!"]>>
    /\ stdout = <<[kind |-> "tsv", text |-> <<"1", LF>>]>>

\* ============================================================== GetSpec
\* LangfuseClient._get on one request and one answer of the transport.

\* Status codes the server answers with.
HttpStatuses == {200, 201, 302, 400, 401, 404, 500, 503}

\* What self._http.get gives: a response (its body JSON or not), or an
\* httpx.RequestError (no connection, timeout).
Transports ==
    [kind : {"response"}, status : HttpStatuses, body : {"json", "not json"}]
        \cup {[kind |-> "request_error"]}

\* httpx.Response.is_success, which raise_for_status tests
IsSuccess(status) == 200 <= status /\ status <= 299

\* The params argument: None, or a dict some of whose values are None.
ParamNames == {"userId", "name"}
GetParams ==
    {NONE} \cup {Some(f) : f \in UNION {[D -> {NONE, Some("x")}] : D \in SUBSET ParamNames}}

\* _clean_params(params)
CleanParams(params) ==
    IF params = NONE THEN << >>
    ELSE LET f == params[1]
         IN  [k \in {n \in DOMAIN f : f[n] # NONE} |-> f[k]]

\* What a call does: returns, or raises an exception of a type.
Returns == [outcome |-> "return"]
RaisesAPIError(status_code, exit_code) ==
    [outcome |-> "raise", type |-> "LangfuseAPIError",
     status_code |-> status_code, exit_code |-> exit_code]
RaisesOther(type) == [outcome |-> "raise", type |-> type]

\* _get(path, params) once the transport answered t
Get(t) ==
    IF t.kind = "request_error" THEN RaisesAPIError(0, ERROR)
    ELSE IF ~IsSuccess(t.status)
    THEN IF t.status = HTTP_NOT_FOUND
         THEN RaisesAPIError(404, NOT_FOUND)
         ELSE RaisesAPIError(t.status, ERROR)
    ELSE IF t.body = "json" THEN Returns
    ELSE RaisesOther("json.JSONDecodeError")

GetInit ==
    /\ PagerIdle
    /\ ctx = NoCtx
    /\ cmd = "get"
    /\ HandlerIdle
    /\ input \in [params : GetParams, resp : Transports]
    /\ result = NONE

\* self._get(path, params)
DoGet ==
    /\ cmd = "get"
    /\ result = NONE
    /\ result' = Some([sent |-> CleanParams(input.params), call |-> Get(input.resp)])
    /\ UNCHANGED <<pagerVars, logVars, consumerVars, cmdVars, input>>

GetNext == DoGet

GetSpec == GetInit /\ [][GetNext]_vars

\* C20: _get raises LangfuseAPIError with status_code 404 and exit code
\* NOT_FOUND (2) on HTTP 404; with the response's status code and exit code
\* ERROR (1) on any other non-success response; with exit code ERROR (1) on
\* a connection failure; and a success response never raises.
C20_TypedErrors ==
    (cmd = "get" /\ result # NONE) =>
        LET t == input.resp
            c == result[1].call
        IN  /\ (t.kind = "response" /\ t.status = 404) =>
                  c = RaisesAPIError(404, 2)
            /\ (t.kind = "response" /\ ~IsSuccess(t.status) /\ t.status # 404) =>
                  c = RaisesAPIError(t.status, 1)
            /\ t.kind = "request_error" =>
                  (c.outcome = "raise" /\ c.type = "LangfuseAPIError" /\ c.exit_code = 1)
            /\ (t.kind = "response" /\ IsSuccess(t.status)) =>
                  c.outcome = "return"

\* ============================================================ HandlerSpec
\* The command handlers: a try block of fetches and renders,
\* `except LangfuseAPIError`, for one handler `except Exception`, and
\* `finally: client.close()`.  `input` names the handler and its arguments,
\* `result` is the log of what the handler did, in order.
Handlers ==
    {"traces list", "traces get", "traces tree", "prompts list", "prompts get",
     "prompts compile", "prompts diff", "datasets get"}

\* The calls of the handler's try block, in order: "rest" is a client method
\* built on _get, "sdk" one built on the sdk property, "formatter" one of
\* render_trace_tree / render_diff.
Body(h, c) ==
    IF h = "traces list" THEN <<"rest", "render_table">>
    ELSE IF h = "traces get" THEN <<"rest", "render_detail">>
    ELSE IF h = "traces tree"
    THEN <<"rest", "rest", IF IsJsonMode(c) THEN "render_json" ELSE "formatter">>
    ELSE IF h = "prompts list" THEN <<"sdk", "render_table">>
    ELSE IF h = "prompts get" THEN <<"sdk", "render_detail">>
    ELSE IF h = "prompts compile" THEN <<"parse_vars", "sdk", "render_json">>
    ELSE IF h = "prompts diff"
    THEN <<"sdk", "sdk", IF IsJsonMode(c) THEN "render_json" ELSE "formatter">>
    ELSE IF IsJsonMode(c) THEN <<"rest", "rest", "render_json">>
    ELSE <<"rest", "render_detail", "rest", "items_table">>

\* prompts get is the one handler with `except Exception`.
CatchesAll(h) == h = "prompts get"

\* What a client method built on _get does: returns, raises the
\* LangfuseAPIError of a failed GET, or lets json.JSONDecodeError through.
RestOutcomes == {"ok", "badjson"} \cup Failures

\* What a client method built on the sdk property does: the property raises
\* LangfuseAPIError when the import or the constructor fails; the SDK call
\* itself (prompts.list, get_prompt, compile) raises whatever the SDK raises.
SdkOutcomes == {"ok", "import_error", "init_error", "call_error"}

\* The exception a failed fetch raises.
FetchRaises(o) ==
    IF o \in Failures
    THEN [type |-> "LangfuseAPIError", exit_code |-> APIError(o).exit_code]
    ELSE IF o \in {"import_error", "init_error"}
    THEN [type |-> "LangfuseAPIError", exit_code |-> ERROR]
    ELSE IF o = "badjson" THEN [type |-> "json.JSONDecodeError"]
    ELSE [type |-> "Exception"]

IsFetch(e) == e.ev = "fetch"
IsRender(e) == e.ev = "render"

\* self._sdk is set: an earlier sdk access got past the constructor.
SdkCached(log) ==
    \E i \in DOMAIN log : IsFetch(log[i]) /\ log[i].via = "sdk" /\ log[i].outcome = "ok"

\* The next call of the try block, "return" after the last one.
NextCall ==
    LET b == Body(input[1].handler, ctx) IN
    IF Len(result) < Len(b) THEN b[Len(result) + 1] ELSE "return"

HandlerInit ==
    /\ PagerIdle
    /\ ctx \in {MainContext(f, tty) : f \in Flags, tty \in BOOLEAN}
    /\ cmd = "body"
    /\ HandlerIdle
    /\ input \in {Some([handler |-> h, bad_var |-> b]) :
                    h \in Handlers, b \in BOOLEAN}
    /\ result = <<>>

\* compile_prompt: a --var without "=" is reported and raises typer.Exit(1);
\* typer.Exit is no LangfuseAPIError, the finally clause runs.
DoParseVars ==
    /\ cmd = "body"
    /\ NextCall = "parse_vars"
    /\ result' = Append(result, [ev |-> "parse_vars"])
    /\ IF input[1].bad_var
       THEN /\ stderr' = stderr \o ErrorLine(<<"error: ", "invalid variable format">>)
            /\ exitCode' = ERROR
            /\ cmd' = "finally"
       ELSE UNCHANGED <<stderr, exitCode, cmd>>
    /\ UNCHANGED <<pagerVars, logVars, consumerVars, ctx, rows, stdout, closed,
                   renders, input>>

\* A fetch of the try block returns or raises.
DoFetch ==
    /\ cmd = "body"
    /\ NextCall \in {"rest", "sdk"}
    /\ \E o \in IF NextCall = "rest" THEN RestOutcomes
                ELSE IF SdkCached(result) THEN {"ok", "call_error"}
                ELSE SdkOutcomes :
          /\ result' = Append(result, [ev |-> "fetch", via |-> NextCall, outcome |-> o])
          /\ IF o = "ok"
             THEN UNCHANGED <<err, cmd>>
             ELSE /\ err' = Some(FetchRaises(o))
                  /\ cmd' = "except"
    /\ UNCHANGED <<limit, page, yielded, items, hint, idx, pc, logVars,
                   consumerVars, ctx, rows, stdout, stderr, exitCode, closed,
                   renders, input>>

\* What the render call `tag` of a handler does.
RenderCall(tag, c, its, jq) ==
    IF tag = "render_table" THEN RenderTable(c, its, SampleColumns, jq)
    ELSE IF tag = "render_detail" THEN RenderDetail(c, SampleRow1, SampleDetail, jq)
    ELSE IF tag = "render_json" THEN RenderJson(c, <<SampleRow1>>, jq)
    ELSE IF tag = "formatter"
    THEN Effect("table", <<[kind |-> "formatter"]>>, <<>>, Running)
    ELSE IF its = <<>> THEN Effect("none", <<>>, <<>>, Running)
    ELSE LET t == RenderTable(c, its, SampleColumns, jq) IN
         Effect(t.branch, t.out, Status(c, "Items") \o t.errs, t.exit)

\* Variant: the SystemExit of a failed jq run leaves the handler at once.
DoRenderExitsAtOnce ==
    /\ cmd = "body"
    /\ NextCall \in {"render_table", "render_detail", "render_json",
                     "formatter", "items_table"}
    /\ \E jq \in JqOutcomes, its \in {<<>>, <<SampleRow1>>} :
          LET eff == RenderCall(NextCall, ctx, its, jq) IN
          /\ stdout' = stdout \o eff.out
          /\ stderr' = stderr \o eff.errs
          /\ result' = Append(result, [ev |-> "render", tag |-> NextCall])
          /\ IF eff.exit = Running
             THEN UNCHANGED <<exitCode, cmd>>
             ELSE exitCode' = eff.exit /\ cmd' = "exited"
    /\ renders' = renders + 1
    /\ UNCHANGED <<pagerVars, logVars, consumerVars, ctx, rows, closed, input>>

\* A render call of the try block; the SystemExit raised by _apply_jq
\* passes every except clause and reaches the finally clause.
DoRender ==
    /\ cmd = "body"
    /\ NextCall \in {"render_table", "render_detail", "render_json",
                     "formatter", "items_table"}
    /\ \E jq \in JqOutcomes, its \in {<<>>, <<SampleRow1>>} :
          LET eff == RenderCall(NextCall, ctx, its, jq) IN
          /\ stdout' = stdout \o eff.out
          /\ stderr' = stderr \o eff.errs
          /\ result' = Append(result, [ev |-> "render", tag |-> NextCall])
          /\ IF eff.exit = Running
             THEN UNCHANGED <<exitCode, cmd>>
             ELSE exitCode' = eff.exit /\ cmd' = "finally"
    /\ renders' = renders + 1
    /\ UNCHANGED <<pagerVars, logVars, consumerVars, ctx, rows, closed, input>>

\* The try block ends (its last statement, or `return`).
BodyReturn ==
    /\ cmd = "body"
    /\ NextCall = "return"
    /\ exitCode' = SUCCESS
    /\ cmd' = "finally"
    /\ UNCHANGED <<pagerVars, logVars, consumerVars, ctx, rows, stdout, stderr,
                   closed, renders, fnVars>>

\* except LangfuseAPIError as e: output.error(f"error: {e}");
\* raise typer.Exit(e.exit_code)
ExceptAPIError ==
    /\ cmd = "except"
    /\ err[1].type = "LangfuseAPIError"
    /\ stderr' = stderr \o ErrorLine(<<"error: ", err[1]>>)
    /\ exitCode' = err[1].exit_code
    /\ cmd' = "finally"
    /\ UNCHANGED <<pagerVars, logVars, consumerVars, ctx, rows, stdout, closed,
                   renders, fnVars>>

\* except Exception as e: output.error(f"error: {e}"); raise typer.Exit(1)
ExceptException ==
    /\ cmd = "except"
    /\ err[1].type # "LangfuseAPIError"
    /\ CatchesAll(input[1].handler)
    /\ stderr' = stderr \o ErrorLine(<<"error: ", err[1]>>)
    /\ exitCode' = ERROR
    /\ cmd' = "finally"
    /\ UNCHANGED <<pagerVars, logVars, consumerVars, ctx, rows, stdout, closed,
                   renders, fnVars>>

\* No except clause matches: the exception leaves the handler through the
\* finally clause and the interpreter prints its traceback.
Uncaught ==
    /\ cmd = "except"
    /\ err[1].type # "LangfuseAPIError"
    /\ ~CatchesAll(input[1].handler)
    /\ stderr' = stderr \o <<[kind |-> "traceback", msg |-> <<err[1].type>>]>>
    /\ exitCode' = UncaughtExit
    /\ cmd' = "finally"
    /\ UNCHANGED <<pagerVars, logVars, consumerVars, ctx, rows, stdout, closed,
                   renders, fnVars>>

\* finally: client.close(); then the process exits with exitCode.
Finally ==
    /\ cmd = "finally"
    /\ closed' = closed + 1
    /\ result' = Append(result, [ev |-> "close"])
    /\ cmd' = "exited"
    /\ UNCHANGED <<pagerVars, logVars, consumerVars, ctx, rows, stdout, stderr,
                   exitCode, renders, input>>

HandlerNext ==
    \/ DoParseVars
    \/ DoFetch
    \/ DoRender
    \/ BodyReturn
    \/ ExceptAPIError
    \/ ExceptException
    \/ Uncaught
    \/ Finally

HandlerSpec == HandlerInit /\ [][HandlerNext]_vars

\* The fetch of the handler that failed, if any.
FailedFetch ==
    \E i \in DOMAIN result : IsFetch(result[i]) /\ result[i].outcome # "ok"

\* C21: after a handler whose fetch failed (REST or SDK-backed), stderr
\* holds exactly one line, an "error: " line, the exit status is not zero
\* and is the error's exit code, and no traceback was printed.
C21_OneErrorLine ==
    (cmd = "exited" /\ FailedFetch) =>
        /\ Len(stderr) = 1
        /\ stderr[1].kind = "error"
        /\ stderr[1].msg[1] = "error: "
        /\ exitCode # SUCCESS
        /\ err[1].type = "LangfuseAPIError" => exitCode = err[1].exit_code

\* C30: in every handler client.close() is called exactly once on every
\* path (rendered, LangfuseAPIError from a fetch, exit raised by a failed jq
\* run, any other exception): it has not been called while the handler can
\* still fetch or render, every unfinished handler can take a step, and at
\* the exit it has been called once, as the last thing the handler did.
C30_CloseOnce ==
    /\ cmd # "exited" =>
          /\ closed = 0
          /\ \A i \in DOMAIN result : result[i].ev # "close"
          /\ ENABLED HandlerNext
    /\ cmd = "exited" =>
          /\ closed = 1
          /\ result # <<>>
          /\ \A i \in DOMAIN result : (result[i].ev = "close") <=> (i = Len(result))

\* A handler left by the SystemExit of a failed jq run, after a fetch and a
\* render attempt, with the client closed.
C30_Witness ==
    /\ cmd = "exited"
    /\ closed = 1
    /\ err = NONE
    /\ exitCode = ERROR
    /\ \E i, j \in DOMAIN result :
          i < j /\ IsFetch(result[i]) /\ IsRender(result[j]) /\ j = Len(result) - 1
    /\ \E k \in DOMAIN stderr : stderr[k] \in {JqErrorLine("failed")[1]}

\* ============================================================ ConfigSpec
\* config.py: _resolve and resolve_config.  `input` holds the arguments and
\* the environment (process environment, parsed config file, keyring),
\* `result` what the call returned.
DEFAULT_HOST == <<"https://cloud.langfuse.com">>

\* _get_from_keyring(account): None when the keyring cannot be used; an
\* entry is stored per account, so the value read names its account.
KeyringGet(kr, account) ==
    IF ~kr.available THEN NONE
    ELSE LET v == kr.entries[account[Len(account)]] IN
         IF Truthy(v) THEN Some(v[1] \o account) ELSE v

\* Variant: the environment variable is consulted before the flag.
ResolveEnvFirst(flag_value, env, toml_value, keyring_account, kr, default) ==
    IF Truthy(env) THEN env[1]
    ELSE IF Truthy(flag_value) THEN flag_value[1]
    ELSE IF Truthy(toml_value) THEN toml_value[1]
    ELSE IF Truthy(keyring_account) /\ Truthy(KeyringGet(kr, keyring_account[1]))
    THEN KeyringGet(kr, keyring_account[1])[1]
    ELSE default

\* _resolve(flag_value, env_var, toml_value, keyring_account, default);
\* `env` is os.getenv(env_var), `kr` the keyring.
Resolve(flag_value, env, toml_value, keyring_account, kr, default) ==
    IF Truthy(flag_value) THEN flag_value[1]
    ELSE IF Truthy(env) THEN env[1]
    ELSE IF Truthy(toml_value) THEN toml_value[1]
    ELSE IF Truthy(keyring_account) /\ Truthy(KeyringGet(kr, keyring_account[1]))
    THEN KeyringGet(kr, keyring_account[1])[1]
    ELSE default

\* profile or os.getenv("LANGFUSE_PROFILE", "default")
ProfileName(profile, env_profile) ==
    IF Truthy(profile) THEN profile[1]
    ELSE IF env_profile # NONE THEN env_profile[1]
    ELSE <<"default">>

\* toml_data.get("default", {}) or toml_data.get("profiles", {}).get(name, {});
\* a section the file lacks is the empty table.
ProfileData(toml_data, profile_name) ==
    IF profile_name = <<"default">> THEN toml_data.default
    ELSE IF profile_name \in DOMAIN toml_data.profiles
    THEN toml_data.profiles[profile_name]
    ELSE [host |-> NONE, public_key |-> NONE, secret_key |-> NONE]

\* if resolved_host == DEFAULT_HOST
BaseUrlActs(a, resolved_host) == resolved_host = DEFAULT_HOST

\* resolve_config(host=, public_key=, secret_key=, profile=)
ResolveConfig(a) ==
    LET profile_name == ProfileName(a.profile, a.env.LANGFUSE_PROFILE)
        profile_data == ProfileData(a.toml_data, profile_name)
        keyring_prefix == profile_name \o <<"/">>
        host0 == Resolve(a.host, a.env.LANGFUSE_HOST, profile_data.host,
                         NONE, a.keyring, DEFAULT_HOST)
        resolved_host == IF BaseUrlActs(a, host0) /\ Truthy(a.env.LANGFUSE_BASEURL)
                         THEN a.env.LANGFUSE_BASEURL[1]
                         ELSE host0
    IN  [host |-> resolved_host,
         public_key |-> Resolve(a.public_key, a.env.LANGFUSE_PUBLIC_KEY,
                                profile_data.public_key,
                                Some(keyring_prefix \o <<"public_key">>),
                                a.keyring, <<>>),
         secret_key |-> Resolve(a.secret_key, a.env.LANGFUSE_SECRET_KEY,
                                profile_data.secret_key,
                                Some(keyring_prefix \o <<"secret_key">>),
                                a.keyring, <<>>)]

\* An optional string: unset, empty, or a value naming where it came from.
Opt3(tag) == {NONE, Some(<<>>), Some(<<tag>>)}
Opt2(tag) == {NONE, Some(<<tag>>)}

\* The keyring: unusable, or holding entries under the two secret accounts.
Keyrings ==
    {[available |-> FALSE,
      entries |-> [k \in {"public_key", "secret_key"} |-> NONE]]}
    \cup [available : {TRUE},
          entries : {e \in [{"public_key", "secret_key"} -> Opt3("keyring")] :
                        e["secret_key"] # Some(<<>>)}]

\* A config file with a [default] section and a [profiles.dev] section; the
\* values of a section name the section.
TomlData(h, p, s) ==
    LET sect(n) == [host |-> IF Truthy(h) THEN Some(h[1] \o <<n>>) ELSE h,
                    public_key |-> IF Truthy(p) THEN Some(p[1] \o <<n>>) ELSE p,
                    secret_key |-> IF Truthy(s) THEN Some(s[1] \o <<n>>) ELSE s]
    IN  [default |-> sect("default"),
         profiles |-> [n \in {<<"dev">>} |-> sect("dev")]]

ResolveArgs ==
    [flag_value : Opt3("flag"), env : Opt3("env"), toml_value : Opt3("toml"),
     keyring_account : {NONE, Some(<<>>), Some(<<"default", "/", "public_key">>)},
     keyring : Keyrings, default : {<<>>, <<"default-value">>}]

ResolveConfigArgs ==
    {[host |-> fh, public_key |-> fp, secret_key |-> fs, profile |-> pr,
      env |-> [LANGFUSE_HOST |-> eh, LANGFUSE_BASEURL |-> eb,
               LANGFUSE_PUBLIC_KEY |-> ep, LANGFUSE_SECRET_KEY |-> es,
               LANGFUSE_PROFILE |-> NONE],
      toml_data |-> TomlData(th, tp, ts), keyring |-> kr] :
        fh \in {NONE, Some(<<"flag">>), Some(DEFAULT_HOST)},
        fp \in Opt2("flag"), fs \in Opt2("flag"), pr \in Opt2("dev"),
        eh \in Opt3("env"), eb \in Opt3("baseurl"),
        ep \in Opt2("env"), es \in Opt2("env"),
        th \in Opt2("toml"), tp \in Opt2("toml"), ts \in Opt2("toml"),
        kr \in Keyrings}

ConfigInit ==
    /\ PagerIdle
    /\ ctx = NoCtx
    /\ HandlerIdle
    /\ \/ cmd = "_resolve" /\ input \in ResolveArgs
       \/ cmd = "resolve_config" /\ input \in ResolveConfigArgs
    /\ result = NONE

DoResolve ==
    /\ cmd = "_resolve"
    /\ result = NONE
    /\ result' = Some(Resolve(input.flag_value, input.env, input.toml_value,
                              input.keyring_account, input.keyring, input.default))
    /\ UNCHANGED <<pagerVars, logVars, consumerVars, cmdVars, input>>

DoResolveConfig ==
    /\ cmd = "resolve_config"
    /\ result = NONE
    /\ result' = Some(ResolveConfig(input))
    /\ UNCHANGED <<pagerVars, logVars, consumerVars, cmdVars, input>>

ConfigNext == DoResolve \/ DoResolveConfig

ConfigSpec == ConfigInit /\ [][ConfigNext]_vars

\* The first non-empty value of a list of optional sources, else `default`.
RECURSIVE FirstNonEmpty(_, _)
FirstNonEmpty(sources, default) ==
    IF sources = <<>> THEN default
    ELSE IF sources[1] # NONE /\ sources[1][1] # <<>> THEN sources[1][1]
    ELSE FirstNonEmpty(Tail(sources), default)

\* What the keyring holds for a field of the selected profile.
KeyringOf(a, field) ==
    IF a.keyring.available /\ a.keyring.entries[field] \notin {NONE, Some(<<>>)}
    THEN Some(a.keyring.entries[field][1]
              \o (IF Truthy(a.profile) THEN a.profile[1] ELSE <<"default">>)
              \o <<"/", field>>)
    ELSE NONE

\* What the config file holds for a field of the selected profile.
FileOf(a, field) ==
    IF Truthy(a.profile)
    THEN a.toml_data.profiles[a.profile[1]][field]
    ELSE a.toml_data.default[field]

C23_HostOverBaseUrl ==
    (cmd = "resolve_config" /\ result # NONE) =>
        LET supplied == <<input.host, input.env.LANGFUSE_HOST, FileOf(input, "host")>>
            any == \E i \in 1..3 : Truthy(supplied[i])
        IN  /\ any => result[1].host = FirstNonEmpty(supplied, DEFAULT_HOST)
            /\ (~any /\ Truthy(input.env.LANGFUSE_BASEURL)) =>
                   result[1].host = input.env.LANGFUSE_BASEURL[1]
            /\ (~any /\ ~Truthy(input.env.LANGFUSE_BASEURL)) =>
                   result[1].host = DEFAULT_HOST

\* ============================================================ BatchSpec
\* scripts/route_model_comparison.py: collect_observations.  `input` holds
\* the ids fetch_trace_ids returned, `requests` the submitted futures (their
\* trace ids), `served` the finished futures in completion order, `pulls`
\* the number of futures as_completed has handed to the loop, `result` the
\* locals of collect_observations plus, per loop iteration, what it did
\* with the future (`handled`).
MaxTraces == 3

TraceIds == <<"t1", "t2", "t3", "t4", "t5">>

\* What a task fetch_trace_tree(tid) can end with:
\*   tree_route, tree_no_route: a trace tree with / without a ROUTE generation
\*   tree_malformed: JSON on which extract_route_observation raises
\*   lf_failed: lf exits non-zero, run_lf logs and returns "[]"
\*   timeout: subprocess.TimeoutExpired, run_lf logs and returns "[]"
\*   not_json: json.loads fails, fetch_trace_tree logs and returns None
\*   lf_missing: FileNotFoundError, run_lf logs and calls sys.exit(1)
\* (on success lf --json writes a non-empty array, so an empty document
\* comes only from run_lf's "[]".)
TaskOutcomes ==
    {"tree_route", "tree_no_route", "tree_malformed", "lf_failed", "timeout",
     "not_json", "lf_missing"}

\* The line the worker thread prints for an outcome (run_lf,
\* fetch_trace_tree), none when it prints nothing.
WorkerLog(tid, o) ==
    IF o \in {"lf_failed", "timeout"}
    THEN <<[kind |-> "log", level |-> "ERROR", by |-> "run_lf", tid |-> tid]>>
    ELSE IF o = "lf_missing"
    THEN <<[kind |-> "log", level |-> "FATAL", by |-> "run_lf", tid |-> tid]>>
    ELSE IF o = "not_json"
    THEN <<[kind |-> "log", level |-> "WARN", by |-> "fetch_trace_tree", tid |-> tid]>>
    ELSE <<>>

\* Variant: the loop has no `except Exception` clause.
HandleNoExcept(o) ==
    IF o = "tree_route" THEN "collected"
    ELSE IF o = "tree_no_route" THEN "skipped"
    ELSE IF o \in {"lf_missing", "tree_malformed"} THEN "raised"
    ELSE "error"

\* What one iteration of the as_completed loop does with a finished
\* future: future.result() re-raises the worker's SystemExit, which
\* `except Exception` does not catch; a falsy result counts as an error;
\* an exception of extract_route_observation is caught and counted.
Handle(o) ==
    IF o = "tree_route" THEN "collected"
    ELSE IF o = "tree_no_route" THEN "skipped"
    ELSE IF o = "lf_missing" THEN "raised"
    ELSE "error"

\* The lines the loop itself prints for an iteration.
LoopLog(tid, o, i, n) ==
    (IF o = "tree_no_route"
     THEN <<[kind |-> "log", level |-> "SKIP", by |-> "collect_observations", tid |-> tid]>>
     ELSE IF o = "tree_malformed"
     THEN <<[kind |-> "log", level |-> "ERROR", by |-> "collect_observations", tid |-> tid]>>
     ELSE <<>>)
    \o (IF i % 10 = 0
        THEN <<[kind |-> "log", level |-> "INFO", by |-> "collect_observations",
                tid |-> "progress"]>>
        ELSE <<>>)

\* Futures that have finished.
Finished == {served[k].task : k \in DOMAIN served}

BatchInit ==
    /\ limit = 0 /\ page = 1 /\ yielded = 0 /\ items = 0 /\ hint = NoHint
    /\ idx = 0 /\ pc = "idle" /\ err = NONE
    /\ requests = <<>>
    /\ served = <<>>
    /\ out = <<>>
    /\ pulls = 0
    /\ stopped = FALSE
    /\ ctx = NoCtx
    /\ cmd = "start"
    /\ HandlerIdle
    /\ input \in {[trace_ids |-> SubSeq(TraceIds, 1, n)] : n \in 0..MaxTraces}
    /\ result = [observations |-> <<>>, errors |-> 0, handled |-> <<>>]

\* Step 1 and the submission of every id to the executor; no ids, return [].
Submit ==
    /\ cmd = "start"
    /\ stderr' = stderr \o <<[kind |-> "log", level |-> "INFO",
                              by |-> "collect_observations", tid |-> "found"]>>
    /\ IF input.trace_ids = <<>>
       THEN cmd' = "returned" /\ UNCHANGED requests
       ELSE cmd' = "collect" /\ requests' = input.trace_ids
    /\ UNCHANGED <<pagerVars, served, consumerVars, ctx, rows, stdout,
                   exitCode, closed, renders, fnVars>>

\* A worker thread finishes a task, in any order; the executor keeps
\* running submitted tasks while the with block shuts it down.
WorkerFinish ==
    /\ cmd \in {"collect", "shutdown"}
    /\ \E t \in DOMAIN requests \ Finished, o \in TaskOutcomes :
          /\ served' = Append(served, [task |-> t, tid |-> requests[t], outcome |-> o])
          /\ stderr' = stderr \o WorkerLog(requests[t], o)
    /\ UNCHANGED <<pagerVars, requests, consumerVars, ctx, cmd, rows, stdout,
                   exitCode, closed, renders, fnVars>>

\* One iteration of `for i, future in enumerate(as_completed(futures), 1)`.
Collect ==
    /\ cmd = "collect"
    /\ pulls < Len(served)
    /\ LET f == served[pulls + 1]
           h == Handle(f.outcome)
       IN  /\ pulls' = pulls + 1
           /\ IF h = "raised"
              THEN /\ cmd' = "shutdown"
                   /\ UNCHANGED <<result, stderr>>
              ELSE /\ result' =
                        [observations |-> IF h = "collected"
                                          THEN Append(result.observations, f.tid)
                                          ELSE result.observations,
                         errors |-> IF h = "error" THEN result.errors + 1
                                    ELSE result.errors,
                         handled |-> Append(result.handled, [task |-> f.task, as |-> h])]
                   /\ stderr' = stderr \o LoopLog(f.tid, f.outcome, pulls + 1, Len(requests))
                   /\ UNCHANGED cmd
    /\ UNCHANGED <<pagerVars, logVars, out, stopped, ctx, rows, stdout,
                   exitCode, closed, renders, input>>

\* Every future was handled: the summary line, return observations.
BatchReturn ==
    /\ cmd = "collect"
    /\ pulls = Len(requests)
    /\ stderr' = stderr \o <<[kind |-> "log", level |-> "INFO",
                              by |-> "collect_observations", tid |-> "collected"]>>
    /\ cmd' = "returned"
    /\ UNCHANGED <<pagerVars, logVars, consumerVars, ctx, rows, stdout,
                   exitCode, closed, renders, fnVars>>

\* The SystemExit leaves the with block once the executor has shut down
\* (every submitted task has run), then ends the script with status 1.
BatchExit ==
    /\ cmd = "shutdown"
    /\ Finished = DOMAIN requests
    /\ exitCode' = 1
    /\ cmd' = "aborted"
    /\ UNCHANGED <<pagerVars, logVars, consumerVars, ctx, rows, stdout,
                   stderr, closed, renders, fnVars>>

BatchNext ==
    \/ Submit
    \/ WorkerFinish
    \/ Collect
    \/ BatchReturn
    \/ BatchExit

BatchSpec == BatchInit /\ [][BatchNext]_vars

\* How often task t was handled by the loop.
TimesHandled(t) ==
    Cardinality({k \in DOMAIN result.handled : result.handled[k].task = t})

\* The outcome of the finished task t.
OutcomeOf(t) ==
    LET k == CHOOSE k \in DOMAIN served : served[k].task = t IN served[k].outcome

\* A line on stderr about trace id `tid` at one of the levels.
Logged(tid, levels) ==
    \E k \in DOMAIN stderr :
        stderr[k].kind = "log" /\ stderr[k].tid = tid /\ stderr[k].level \in levels

\* Every submitted id was handled exactly once, as collected, skipped or
\* error.
AllAccounted ==
    \A t \in DOMAIN requests :
        /\ TimesHandled(t) = 1
        /\ \E k \in DOMAIN result.handled :
              /\ result.handled[k].task = t
              /\ result.handled[k].as \in {"collected", "skipped", "error"}

\* A failed task was logged, counted and kept out of the observations,
\* and the results of the other tasks were collected.
FailuresExcluded ==
    /\ \A t \in DOMAIN requests :
          LET o == OutcomeOf(t) IN
          /\ o \notin {"tree_route", "tree_no_route"} =>
                /\ Logged(requests[t], {"ERROR", "WARN"})
                /\ \A k \in DOMAIN result.observations :
                      result.observations[k] # requests[t]
          /\ o = "tree_route" =>
                \E k \in DOMAIN result.observations :
                    result.observations[k] = requests[t]
    /\ result.errors =
          Cardinality({t \in DOMAIN requests :
                          OutcomeOf(t) \notin {"tree_route", "tree_no_route"}})

\* C24 as stated: whatever the tasks end with, the batch is not aborted:
\* collect_observations returns, every submitted id is accounted for
\* exactly once, failed tasks are logged and excluded.
C24_NoTaskAbortsBatch ==
    /\ cmd # "shutdown" /\ cmd # "aborted"
    /\ \A t \in DOMAIN requests : TimesHandled(t) <= 1
    /\ cmd = "returned" => AllAccounted /\ FailuresExcluded

\* C24 amended: the batch is aborted only by a task that found no lf
\* executable (run_lf calls sys.exit, the SystemExit passes `except
\* Exception`); then the ids not yet handled stay unaccounted and the
\* script ends with status 1.  Every other failure (lf failed, timeout, no
\* JSON, a tree extract_route_observation raises on) is logged, counted and
\* excluded, and when collect_observations returns every submitted id was
\* handled exactly once.
C24_OnlyMissingLfAborts ==
    /\ \A t \in DOMAIN requests : TimesHandled(t) <= 1
    /\ cmd = "returned" => AllAccounted /\ FailuresExcluded
    /\ cmd \in {"shutdown", "aborted"} =>
          /\ served[pulls].outcome = "lf_missing"
          /\ TimesHandled(served[pulls].task) = 0
          /\ Len(result.handled) = pulls - 1
    /\ cmd = "aborted" => exitCode = 1
    /\ (cmd = "collect" /\ pulls = Len(requests)) =>
          \A t \in DOMAIN requests : OutcomeOf(t) # "lf_missing"

\* A batch of three that returned with one task collected, one failed on
\* a timeout and one failed inside extract_route_observation.
C24_Witness ==
    /\ cmd = "returned"
    /\ Len(requests) = MaxTraces
    /\ Len(result.observations) = 1
    /\ result.errors = 2
    /\ \E t, u \in DOMAIN requests :
          OutcomeOf(t) = "timeout" /\ OutcomeOf(u) = "tree_malformed"

\* ------------------------------------------------------------ C25
\* The transport behaved, on every request so far, like a server that holds
\* N records and answers (page p, size s) with the records at positions
\* (p-1)*s+1 .. min(p*s, N) and totalItems = N.
OffsetServer(N) ==
    \A k \in DOMAIN served :
        /\ served[k].fail = "none"
        /\ served[k].hint = N
        /\ served[k].n = Max(0, Min(requests[k].page * requests[k].size, N)
                                - (requests[k].page - 1) * requests[k].size)

\* Position, on such a server, of the record handed out as item <<k, i>>.
PositionOf(o) == (requests[o[1]].page - 1) * requests[o[1]].size + o[2]

\* C25: against a server that holds N records and serves page p of size s
\* as positions (p-1)*s+1 .. min(p*s, N) with totalItems = N, a fully
\* consumed _paginate with limit L >= 1 yields exactly the first min(L, N)
\* records, in order, each once.
C25_FirstRecordsOnce ==
    \A N \in Hints \ {NoHint} :
        (limit >= 1 /\ pc = "done" /\ OffsetServer(N)) =>
            /\ Len(out) = Min(limit, N)
            /\ \A i \in DOMAIN out : PositionOf(out[i]) = i

\* ============================================================ LiveSpec
\* _paginate consumed to the end, as list(self._paginate(...)) does: the
\* consumer never drops the iterator and calls next() again after every
\* item; generator and consumer run in one thread, so a step that is
\* possible is taken.  The limits keep every run below MaxFetches requests.
LiveLimits == {-1, 0, 1, ShortLen + 1, 2 * ShortLen + 1}

LiveInit ==
    /\ limit \in LiveLimits
    /\ PagerInit
    /\ ctx = NoCtx
    /\ cmd = "iter"
    /\ HandlerIdle
    /\ FnIdle

LiveNext ==
    \/ Pull
    \/ Loop
    \/ ForStep
    \/ AfterPage

LiveSpec == LiveInit /\ [][LiveNext]_vars /\ WF_vars(LiveNext)

\* The generator has finished: exhausted, or left by an exception of _get.
Terminated == pc \in {"done", "raised", "crashed"}

\* C26: a fully consumed _paginate terminates for every integer limit; it
\* never makes more than max(limit, 0) requests, and for limit <= 0 it
\* makes no request and yields nothing.
C26_Terminates ==
    /\ [](/\ Fetches <= Max(limit, 0)
          /\ limit <= 0 => (requests = <<>> /\ out = <<>>))
    /\ <>Terminated

\* An exhausted run of two requests, and none were blocked.
C26_Witness ==
    /\ pc = "done"
    /\ limit > 1
    /\ Fetches = 2
    /\ Fetches < MaxFetches
    /\ Len(out) = limit
    /\ \A k \in DOMAIN served : served[k].fail = "none"

\* ------------------------------------------------------------ C29
\* C29: a non-empty page whose response carries no totalItems hint is the
\* last one requested; when it is the first page, only items of that page
\* are yielded, at most min(limit, 50) of them.
C29_NoHintStops ==
    \A k \in DOMAIN served :
        (served[k].fail = "none" /\ served[k].n > 0 /\ served[k].hint = NoHint) =>
            /\ k = Fetches
            /\ pc \in {"for", "suspended", "after", "done"}
            /\ k = 1 =>
                  /\ \A i \in DOMAIN out : out[i][1] = 1
                  /\ Len(out) <= Min(limit, served[1].n)
                  /\ Len(out) <= PageSize

\* A full first page without the hint ended a run whose limit asked for
\* more.
C29_Witness ==
    /\ pc = "done"
    /\ limit > PageSize
    /\ Fetches = 1
    /\ served[1].fail = "none"
    /\ served[1].hint = NoHint
    /\ served[1].n = PageSize
    /\ Len(out) = PageSize

\* ------------------------------------------------------------ C27
\* C27: a JSON-mode render that returns projects first, then serializes,
\* then filters, then writes once: the serialized records are the
\* projections of the rendered ones (the rendered ones when no allow-list
\* is configured); with a jq expression configured the filter is given
\* exactly that serialization and stdout receives the filter's output, which
\* ends with its newline; without one stdout receives the serialization and
\* a newline.
C27_JsonOrder ==
    JsonRendered =>
        LET serialized == Dumps(JList(JsonDoc.of), 2, 0) IN
        /\ Len(stdout) = 1
        /\ IF Truthy(ctx.json_fields)
           THEN ProjectedOnto(ctx.json_fields[1])
           ELSE JsonDoc.of = Rendered
        /\ IF Truthy(ctx.jq_expr)
           THEN /\ stdout[1].kind = "jq"
                /\ stdout[1].expr = ctx.jq_expr[1]
                /\ stdout[1].piped = serialized
                /\ stdout[1].text = JqStdout(stdout[1].expr, serialized)
           ELSE /\ stdout[1].kind = "json.dumps"
                /\ stdout[1].text = serialized \o <<LF>>
        /\ Count(stdout[1].text, LF) >= 1
        /\ stdout[1].text[Len(stdout[1].text)] = LF

\* A JSON-mode render of two records with an allow-list and a filter.
C27_Witness ==
    /\ JsonRendered
    /\ Len(Rendered) = 2
    /\ Truthy(ctx.json_fields)
    /\ Truthy(ctx.jq_expr)
    /\ stdout[1].kind = "jq"
    /\ stdout[1].piped # Dumps(JList(Rendered), 2, 0)

\* ============================================================== SdkSpec
\* LangfuseClient.sdk and LangfuseClient.close.  `input` is the client
\* object ([_sdk, http_closed]), `result` the log of what its methods did.
MaxCalls == 4

\* What the first-use initialisation can do: the import fails, the
\* constructor raises, or the constructor returns a new object.
SdkInits == {"import_error", "init_error", "ok"}

\* Number of Langfuse(...) constructor calls made so far.
Constructions(log) ==
    Cardinality({k \in DOMAIN log : log[k].ev = "sdk" /\ log[k].constructed})

\* Variant: the property builds a new SDK object on every access.
SdkUncached(client, init, log) ==
    IF init = "ok"
    THEN [_sdk |-> Some(Constructions(log) + 1), constructed |-> TRUE,
          call |-> [outcome |-> "return", value |-> Constructions(log) + 1]]
    ELSE [_sdk |-> client._sdk, constructed |-> init = "init_error",
          call |-> [outcome |-> "raise", type |-> "LangfuseAPIError", exit_code |-> ERROR]]

\* The sdk property: the new value of self._sdk, whether the constructor
\* was called, and what the access returned or raised.  A new object is
\* named by the number of the constructor call that made it.
Sdk(client, init, log) ==
    IF client._sdk # NONE
    THEN [_sdk |-> client._sdk, constructed |-> FALSE,
          call |-> [outcome |-> "return", value |-> client._sdk[1]]]
    ELSE IF init = "ok"
    THEN [_sdk |-> Some(Constructions(log) + 1), constructed |-> TRUE,
          call |-> [outcome |-> "return", value |-> Constructions(log) + 1]]
    ELSE [_sdk |-> NONE, constructed |-> init = "init_error",
          call |-> [outcome |-> "raise", type |-> "LangfuseAPIError", exit_code |-> ERROR]]

\* LangfuseClient.__init__: self._sdk = None, an open httpx.Client
SdkInit ==
    /\ PagerIdle
    /\ ctx = NoCtx
    /\ cmd = "client"
    /\ HandlerIdle
    /\ input = [_sdk |-> NONE, http_closed |-> FALSE]
    /\ result = <<>>

\* One access to client.sdk.
AccessSdk ==
    /\ cmd = "client"
    /\ Len(result) < MaxCalls
    /\ \E init \in SdkInits :
          LET r == Sdk(input, init, result) IN
          /\ input' = [input EXCEPT !._sdk = r._sdk]
          /\ result' = Append(result, [ev |-> "sdk", constructed |-> r.constructed,
                                       call |-> r.call])
    /\ UNCHANGED <<pagerVars, logVars, consumerVars, cmdVars>>

\* client.close(): self._http.close(), then self._sdk.flush() if the SDK
\* was initialised.
CloseClient ==
    /\ cmd = "client"
    /\ Len(result) < MaxCalls
    /\ input' = [input EXCEPT !.http_closed = TRUE]
    /\ result' = Append(result, [ev |-> "close", http_close |-> TRUE,
                                 flush |-> input._sdk])
    /\ closed' = closed + 1
    /\ UNCHANGED <<pagerVars, logVars, consumerVars, ctx, cmd, rows, stdout,
                   stderr, exitCode, renders>>

SdkNext == AccessSdk \/ CloseClient

SdkSpec == SdkInit /\ [][SdkNext]_vars

\* Accesses that built the SDK object successfully.
Built == {k \in DOMAIN result : result[k].ev = "sdk" /\ result[k].constructed
                                 /\ result[k].call.outcome = "return"}

\* C28: over any sequence of sdk accesses and close() calls, at most one
\* access builds the SDK object; after it no access calls the constructor
\* and every access returns that same object; close() always closes the
\* HTTP client, and flushes the SDK object exactly when one has been built.
C28_SdkOnce ==
    /\ Cardinality(Built) <= 1
    /\ \A b \in Built : \A k \in DOMAIN result :
          /\ (k > b /\ result[k].ev = "sdk") =>
                /\ ~result[k].constructed
                /\ result[k].call = result[b].call
          /\ (k < b /\ result[k].ev = "sdk") => result[k].call.outcome = "raise"
    /\ \A k \in DOMAIN result : result[k].ev = "close" =>
          /\ result[k].http_close
          /\ (result[k].flush # NONE) <=> (\E b \in Built : b < k)
          /\ \A b \in Built : b < k => result[k].flush = Some(result[b].call.value)
    /\ closed > 0 => input.http_closed

\* A failed initialisation, a successful one, a cached access, then a
\* close that flushes.
C28_Witness ==
    /\ cmd = "client"
    /\ Len(result) = 4
    /\ result[1].ev = "sdk" /\ result[1].call.outcome = "raise"
    /\ result[2].ev = "sdk" /\ result[2].constructed
    /\ result[3].ev = "sdk" /\ ~result[3].constructed
    /\ result[3].call = result[2].call
    /\ result[4].ev = "close" /\ result[4].flush = Some(result[2].call.value)

====
